---- MODULE Spec2Model ----
(***************************************************************************)
(* The scouting system of src/ScoutingSystem.py: two spreadsheet row       *)
(* stores (the primary sheet and the secondary sheet of the Julian tab)    *)
(* and the page render main(), which loads both stores, merges them and    *)
(* rolls the assessment rows up into one consolidated record per player    *)
(* identity.                                                               *)
(*                                                                         *)
(* Representation.  A row is a function from column names to cell values.  *)
(* Text cells are strings.  Rating cells (CR, PR and the attributes) are   *)
(* held in half-points, the step of the rating sliders: 7 stands for 3.5.  *)
(* Age is held in years.  Date_Sent is held as a day ordinal, which orders *)
(* the ISO dates the program writes the way their strings order.  A cell   *)
(* of a numeric column that holds no number is EmptyCell ('') or TextCell  *)
(* (some non-numeric text); in a loaded frame such a cell is NaN.          *)
(* Rolled-up averages are whole points, as round() returns them.           *)
(*                                                                         *)
(* cache1 and cache2 are the entries of st.cache_data for the two stores:  *)
(* <<>> when nothing is cached, else the one-element tuple of the loaded   *)
(* frame.  view is what the last rendered tab displays, and report what    *)
(* the last submission handler reported.                                   *)
(*                                                                         *)
(* notes1 and notes2 are the cell notes of the two sheets, row by row, for *)
(* the two columns whose cells carry notes (Comment and Available?).       *)
(* fetched_notes is st.session_state.fetched_notes, the note cache of the  *)
(* session.  writers holds the calls of the write functions that other     *)
(* sessions have in progress, each with its position.                      *)
(***************************************************************************)
EXTENDS Integers, Sequences, FiniteSets, TLC

VARIABLES sheet1, sheet2, notes1, notes2, cache1, cache2, pc, scouting_df,
          julian_df, grouped, view, report, fetched_notes, writers

vars == <<sheet1, sheet2, notes1, notes2, cache1, cache2, pc, scouting_df,
          julian_df, grouped, view, report, fetched_notes, writers>>

\* ------------------------------------------------------------------ bounds

\* Most rows the primary store holds.
MaxRows1 == 2

\* Most rows the secondary store holds.
MaxRows2 == 2

\* ---------------------------------------------------------------- cells

\* An empty cell of a numeric column, '' in get_all_records.
EmptyCell == -2

\* A cell of a numeric column that holds non-numeric text.
TextCell == -3

\* pandas' NaN in a numeric column of a loaded frame.
NaN == -1

Range(s) == {s[i] : i \in 1..Len(s)}

RECURSIVE SumSeq(_)
SumSeq(s) == IF s = <<>> THEN 0 ELSE Head(s) + SumSeq(Tail(s))

\* --------------------------------------------------------------- taxonomy

\* POSITION_ATTRIBUTES restricted to the positions 1 (goalkeeper), 4 and 9
\* and to the attribute columns the modelled sheets carry.
PositionAttributes ==
    (1 :> <<"Reflexes">>) @@
    (4 :> <<"Speed", "Passing Vision">>) @@
    (9 :> <<"Speed", "Passing Vision">>)

\* list(set(...)) of every position's attributes; the list order is the
\* set's iteration order, fixed here.
AllAttributes == <<"Passing Vision", "Reflexes", "Speed">>

\* The attributes main() leaves out of the numeric rollup set.
GoalkeeperOnly ==
    {"# Reports", "Command Area", "Long Distribution", "Reflexes",
     "Short Distribution", "Shot Stopping"}

NotGoalkeeperOnly(attr) == attr \notin GoalkeeperOnly

\* num_cols of main().
NumCols == <<"CR", "PR">> \o SelectSeq(AllAttributes, NotGoalkeeperOnly)

\* numeric_cols of load_scouting_data.
NumericCols == <<"Age", "CR", "PR">> \o AllAttributes

\* ------------------------------------------------------------------- load

\* pd.to_numeric(errors='coerce') on one cell.
ToNumeric(v) == IF v >= 0 THEN v ELSE NaN

\* load_scouting_data on a reachable store: the rows of the sheet with the
\* numeric columns coerced.
LoadScoutingData(sheet) ==
    [i \in 1..Len(sheet) |->
        [c \in DOMAIN sheet[i] |->
            IF c \in Range(NumericCols) THEN ToNumeric(sheet[i][c])
                                        ELSE sheet[i][c]]]

\* df['_original_sheet_row'] = range(0, len(df)).
WithOriginalSheetRow(df) ==
    [i \in 1..Len(df) |-> ("_original_sheet_row" :> (i - 1)) @@ df[i]]

\* df.sort_values(by='Date_Sent', ascending=False): later dates first; rows
\* of one date keep their order (pandas reverses, sorts and reverses back,
\* and numpy's sort of a short column is an insertion sort).
SortByDateSentDesc(df) ==
    LET n == Len(df)
        Before(j, i) == \/ df[j].Date_Sent > df[i].Date_Sent
                        \/ df[j].Date_Sent = df[i].Date_Sent /\ j < i
        Rank(i) == Cardinality({j \in 1..n : Before(j, i)}) + 1
    IN  [k \in 1..n |-> df[CHOOSE i \in 1..n : Rank(i) = k]]

\* @st.cache_data(ttl=30) around load_scouting_data: the cached frame while
\* there is one, else a load of the store.
CachedLoad(cache, sheet) ==
    IF cache = <<>> THEN LoadScoutingData(sheet) ELSE cache[1]

\* The first lines of main(): number the rows of a loaded frame, sort it.
LoadAndSort(df) == SortByDateSentDesc(WithOriginalSheetRow(df))

\* ----------------------------------------------------------------- rollup

\* advance_mapping, in half-points: Yes 1, Maybe 0.5, No 0, Tier 1 1,
\* Tier 2 0.5; Series.map gives NaN for any other value.
AdvanceMapping(a) ==
    CASE a = "Yes"    -> 2
      [] a = "Maybe"  -> 1
      [] a = "No"     -> 0
      [] a = "Tier 1" -> 2
      [] a = "Tier 2" -> 1
      [] OTHER        -> NaN

\* .fillna(0) on one value.
FillNa0(v) == IF v = NaN THEN 0 ELSE v

\* grouped['Advance Total'] of one row, in half-points.
AdvanceTotalOf(row) == FillNa0(AdvanceMapping(row.Advance))

\* IsWatched without the != '' test.
IsWatchedNotNull(row) == 1

\* grouped['Is Watched'] of one row.  Blank cells load as '', never as
\* null, so notna() holds of every loaded row.
IsWatched(row) == IF row.Date_Watched # "" THEN 1 ELSE 0

\* WatchedValue without the product with 'Is Watched'.
WatchedValueUnmasked(row, col) == FillNa0(row[col])

\* grouped[f'{col}_watched'] of one row, in half-points.
WatchedValue(row, col) == FillNa0(row[col]) * IsWatched(row)

\* The grouping key of groupby.
KeyOf(row) ==
    <<row.Player, row.Club, row.League, row.Age, row.DOB, row.Position>>

\* groupby's default dropna=True: a row with a null in a key column is in
\* no group.  Age is the one key column load_scouting_data coerces.
HasNullKey(row) == row.Age = NaN

\* The text values of the key columns, in string order.
TextOrder ==
    <<"", "01/00", "05/96", "10/96", "Alice", "Bob", "Cara", "ClubX", "Dana", "L1", "N/A", "NA">>

TextRank(s) == CHOOSE i \in 1..Len(TextOrder) : TextOrder[i] = s

\* One key column's value before another's; columns 4 (Age) and 6
\* (Position) are numbers, the others text.
CellLess(k, a, b) ==
    IF k \in {4, 6} THEN a < b ELSE TextRank(a) < TextRank(b)

\* The order groupby(sort=True) gives the group keys.
KeyLess(x, y) ==
    \E k \in 1..6 : /\ \A j \in 1..(k - 1) : x[j] = y[j]
                    /\ CellLess(k, x[k], y[k])

\* The keys of the groups groupby forms, in the order of its output.
GroupKeys(pool) ==
    LET keys == {KeyOf(pool[i]) : i \in {j \in 1..Len(pool) : ~HasNullKey(pool[j])}}
        Rank(x) == Cardinality({y \in keys : KeyLess(y, x)}) + 1
    IN  [k \in 1..Cardinality(keys) |-> CHOOSE x \in keys : Rank(x) = k]

\* The rows of one group, in the pool's order.
GroupRows(pool, key) ==
    LET InGroup(row) == ~HasNullKey(row) /\ KeyOf(row) = key
    IN  SelectSeq(pool, InGroup)

\* Series.unique(): the distinct values in the order first seen.
RECURSIVE Unique(_)
Unique(s) ==
    IF s = <<>> THEN <<>>
    ELSE LET init == Unique(SubSeq(s, 1, Len(s) - 1))
             last == s[Len(s)]
         IN  IF last \in Range(init) THEN init ELSE Append(init, last)

Column(rows, col) == [i \in 1..Len(rows) |-> rows[i][col]]

\* concat_unique, as the list that ', '.join renders.
ConcatUnique(rows, col) == Unique(Column(rows, col))

\* The 'first' and 'last' aggregations of a text column (no cell of a text
\* column loads as null, so none is skipped).
AggFirst(rows, col) == rows[1][col]

\* 'last' written as 'first'.
AggLastAsFirst(rows, col) == rows[1][col]

AggLast(rows, col) == rows[Len(rows)][col]

\* The 'sum' aggregation of f'{col}_watched'.
WatchedSum(rows, col) ==
    SumSeq([i \in 1..Len(rows) |-> WatchedValue(rows[i], col)])

\* The 'sum' aggregation of 'Is Watched', which becomes '# Reports'.
NumReports(rows) == SumSeq([i \in 1..Len(rows) |-> IsWatched(rows[i])])

\* The 'sum' aggregation of 'Advance Total', in half-points.
AdvanceTotal(rows) == SumSeq([i \in 1..Len(rows) |-> AdvanceTotalOf(rows[i])])

\* Python's round() of num/den for num >= 0 and den > 0: to the nearest
\* integer, a tie to the even one.
Round(num, den) ==
    LET q == num \div den
        r == num % den
    IN  IF 2 * r < den THEN q
        ELSE IF 2 * r > den THEN q + 1
        ELSE IF q % 2 = 0 THEN q ELSE q + 1

\* round(row[watched_col] / row['# Reports']) if row['# Reports'] > 0 else 0,
\* in whole points from a sum in half-points.
Average(sum, reports) == IF reports > 0 THEN Round(sum, 2 * reports) ELSE 0

\* AdvancedPct dividing by at least one report instead of testing for none.
AdvancedPctAtLeastOne(total, reports) ==
    (100 * total) \div (2 * (IF reports > 0 THEN reports ELSE 1))

\* int((row['Advance Total'] / row['# Reports']) * 100) if row['# Reports'] > 0
\* else 0, from a total in half-points.  For every group of fewer than twelve
\* rows the double product truncates to the floor of the exact quotient (the
\* first group where it falls one short is 11.5 over 5 reports).
AdvancedPct(total, reports) ==
    IF reports > 0 THEN (100 * total) \div (2 * reports) ELSE 0

Digits == <<"0", "1", "2", "3", "4", "5", "6", "7", "8", "9">>

\* str() of a natural number.
RECURSIVE Str(_)
Str(n) == IF n < 10 THEN Digits[n + 1] ELSE Str(n \div 10) \o Digits[(n % 10) + 1]

\* grouped['Advanced']: the total without '.0' when whole, '/', the reports.
AdvancedText(total, reports) ==
    (IF total % 2 = 0 THEN Str(total \div 2) ELSE Str(total \div 2) \o ".5")
        \o "/" \o Str(reports)

\* grouped['Advance'] from 'Advanced %'.
AdvanceLabel(pct) == IF pct = 100 THEN "Yes" ELSE IF pct = 0 THEN "No" ELSE "Maybe"

\* grouped['Strengths'], as the list that ', '.join renders.
Strengths(avg) ==
    LET Strong(col) == avg[col] > 3 IN SelectSeq(NumCols, Strong)

\* grouped['Weaknesses'], as the list that ', '.join renders.
Weaknesses(avg) ==
    LET Weak(col) == avg[col] < 2 IN SelectSeq(NumCols, Weak)

\* The consolidated record of one group: the aggregations of main() and the
\* columns derived from them.
Consolidate(key, rows) ==
    LET reports == NumReports(rows)
        total   == AdvanceTotal(rows)
        avg     == [col \in Range(NumCols) |-> Average(WatchedSum(rows, col), reports)]
        pct     == AdvancedPct(total, reports)
    IN  avg @@
        [Player |-> key[1], Club |-> key[2], League |-> key[3], Age |-> key[4],
         DOB |-> key[5], Position |-> key[6],
         Scout |-> ConcatUnique(rows, "Scout"),
         Height |-> AggLast(rows, "Height"),
         Category |-> AggLast(rows, "Category"),
         Source |-> AggLast(rows, "Source"),
         Agent |-> AggFirst(rows, "Agent"),
         Date_Sent |-> AggLast(rows, "Date_Sent"),
         Date_Watched |-> AggLast(rows, "Date_Watched"),
         Entry_ID |-> ConcatUnique(rows, "Entry_ID"),
         Advanced |-> AdvancedText(total, reports),
         Strengths |-> Strengths(avg),
         Weaknesses |-> Weaknesses(avg),
         Advance |-> AdvanceLabel(pct)] @@
        ("Advance Total" :> total) @@
        ("# Reports" :> reports) @@
        ("Advanced %" :> pct) @@
        ("Contact Point" :> AggFirst(rows, "Contact Point")) @@
        ("Last Spoke With Agent" :> AggFirst(rows, "Last Spoke With Agent")) @@
        ("Available?" :> AggFirst(rows, "Available?")) @@
        ("Market Value" :> AggFirst(rows, "Market Value")) @@
        ("Contract Expires" :> AggFirst(rows, "Contract Expires"))

\* The rollup of main(): one consolidated record per group of the pool.
Rollup(pool) ==
    LET keys == GroupKeys(pool)
    IN  [k \in 1..Len(keys) |-> Consolidate(keys[k], GroupRows(pool, keys[k]))]

\* pd.concat([grouped, julian_df]): the merged pool.
Concat(df1, df2) == df1 \o df2

\* ------------------------------------------------------------------ views

\* DataFrame[cols] of one row: the row restricted to the columns it has.
Project(row, cols) == [c \in cols \cap DOMAIN row |-> row[c]]

UpperCase == "ABCDEFGHIJKLMNOPQRSTUVWXYZ"

LowerCase == "abcdefghijklmnopqrstuvwxyz"

\* Each upper-case letter's lower-case letter.
LowerOf ==
    [ch \in {SubSeq(UpperCase, i, i) : i \in 1..Len(UpperCase)} |->
        LET i == CHOOSE j \in 1..Len(UpperCase) : SubSeq(UpperCase, j, j) = ch
        IN  SubSeq(LowerCase, i, i)]

\* One character with its case folded.
LowerChar(ch) == IF ch \in DOMAIN LowerOf THEN LowerOf[ch] ELSE ch

RECURSIVE Lower(_)
Lower(text) ==
    IF text = "" THEN ""
    ELSE LowerChar(SubSeq(text, 1, 1)) \o Lower(SubSeq(text, 2, Len(text)))

\* Series.str.contains(term, case=False) for a term without regular
\* expression operators: term occurs in text, case ignored.
Contains(text, term) ==
    LET folded == Lower(text)
        sought == Lower(term)
    IN  \E i \in 1..(Len(folded) - Len(sought) + 1) :
            SubSeq(folded, i, i + Len(sought) - 1) = sought

\* ', '.join of a list of strings.
RECURSIVE Join(_)
Join(list) ==
    IF list = <<>> THEN ""
    ELSE IF Len(list) = 1 THEN list[1]
    ELSE list[1] \o ", " \o Join(Tail(list))

\* The ISO date of a day ordinal.
DateStr(d) == "2025-07-0" \o Str(d)

\* str() of a cell of a whole-number column: of dtype float64 when the
\* column holds a null, int64 otherwise.
IntStr(v, isFloat) ==
    IF v = NaN THEN "nan" ELSE IF isFloat THEN Str(v) \o ".0" ELSE Str(v)

\* str() of a cell held in half-points.
HalfStr(v, isFloat) ==
    IF v = NaN THEN "nan"
    ELSE IF isFloat THEN Str(v \div 2) \o (IF v % 2 = 1 THEN ".5" ELSE ".0")
    ELSE Str(v \div 2)

\* A numeric column of a loaded frame is float64 when a cell of it is null
\* or fractional.
IsFloatColumn(df, c) ==
    \E i \in 1..Len(df) :
        \/ df[i][c] = NaN
        \/ c # "Age" /\ df[i][c] % 2 = 1

\* astype(str) of one cell of a row of a raw frame.
RawCellStr(df, i, c) ==
    IF c = "Age" THEN IntStr(df[i][c], IsFloatColumn(df, c))
    ELSE IF c \in Range(NumericCols) THEN HalfStr(df[i][c], IsFloatColumn(df, c))
    ELSE IF c \in {"Position", "_original_sheet_row"} THEN Str(df[i][c])
    ELSE IF c = "Date_Sent" THEN DateStr(df[i][c])
    ELSE df[i][c]

\* astype(str) of one cell of a consolidated record; the averages are
\* float64, Advance Total is a float sum of weights, and Age is float64
\* when a row of the pool has a null Age.
GroupedCellStr(g, c, ageIsFloat) ==
    IF c = "Age" THEN IntStr(g[c], ageIsFloat)
    ELSE IF c \in Range(NumCols) THEN Str(g[c]) \o ".0"
    ELSE IF c = "Advance Total" THEN HalfStr(g[c], TRUE)
    ELSE IF c \in {"Position", "# Reports", "Advanced %"} THEN Str(g[c])
    ELSE IF c = "Date_Sent" THEN DateStr(g[c])
    ELSE IF c \in {"Scout", "Entry_ID", "Strengths", "Weaknesses"} THEN Join(g[c])
    ELSE g[c]

\* The search mask of one row: some column's string contains the term.
RawMatches(df, i, cols, term) ==
    \E c \in cols \cap DOMAIN df[i] : Contains(RawCellStr(df, i, c), term)

GroupedMatches(g, term, ageIsFloat) ==
    \E c \in DOMAIN g : Contains(GroupedCellStr(g, c, ageIsFloat), term)

\* The predicates without the Age range.
PassesWithoutAge(row, sel, lastCol) ==
    /\ row.Position \in sel.positions
    /\ row.Advance \in sel.advance
    /\ row["Available?"] \in sel.available
    /\ row[lastCol] \in sel.last

\* The structured predicates shared by the filtered views; lastCol is Scout
\* in the Database view and Category in the others.  A null Age fails both
\* comparisons.
Passes(row, sel, lastCol) ==
    /\ row.Position \in sel.positions
    /\ row.Age # NaN /\ row.Age >= sel.age[1] /\ row.Age <= sel.age[2]
    /\ row.Advance \in sel.advance
    /\ row["Available?"] \in sel.available
    /\ row[lastCol] \in sel.last

\* The positions 1..n of a frame, its index.
Index(df) == [i \in 1..Len(df) |-> i]

\* min and max of the Age column, the ends of the Age slider.
MinAge(df) == CHOOSE a \in {df[i].Age : i \in 1..Len(df)} :
                  \A i \in 1..Len(df) : a <= df[i].Age

MaxAge(df) == CHOOSE a \in {df[i].Age : i \in 1..Len(df)} :
                  \A i \in 1..Len(df) : a >= df[i].Age

\* The options of a pills widget: the fixed ones and the column's other
\* values.
Options(fixed, df, c) == fixed \cup {df[i][c] : i \in 1..Len(df)}

\* color_options.
ColorOptions == {"Yellow", "Grey", "Blue"}

\* The selections a user makes in the widgets of a filtered view: the
\* default of the view, everything selected, and one widget narrowed.
Selections(positions, df, advanceOpts, availableOpts, lastOpts, dflt) ==
    LET all == [positions |-> positions, age |-> <<MinAge(df), MaxAge(df)>>,
                advance |-> advanceOpts, available |-> availableOpts,
                last |-> lastOpts]
    IN  {all, dflt,
         [all EXCEPT !.positions = {9}],
         [all EXCEPT !.age = <<MinAge(df), MinAge(df)>>],
         [all EXCEPT !.advance = {"Yes"}],
         [all EXCEPT !.available = {"Yes"}],
         [all EXCEPT !.last = {CHOOSE x \in lastOpts : TRUE}]}

\* The terms typed into a search box; "" is no search.
SearchTerms == {"", "ali", "MAXI"}

\* display_cols of database_tab and julian_tab.
DisplayCols ==
    {"Player", "Club", "League", "Age", "DOB", "Position", "Scout", "Advance",
     "Advanced", "CR", "PR", "Available?"}

\* What a tab displays: the frame it filters, the index of the rows it
\* keeps and the rows as displayed.
Display(tab, term, sel, input, index, cols) ==
    [tab |-> tab, term |-> term, sel |-> sel, input |-> input, index |-> index,
     rows |-> [k \in 1..Len(index) |-> Project(input[index[k]], cols)]]

\* df.sort_values(by=..., ascending=False) of an index by a key of its rows;
\* rows of one key keep their order.
SortIndexDesc(index, key) ==
    LET n == Len(index)
        Before(j, i) == \/ key[index[j]] > key[index[i]]
                        \/ key[index[j]] = key[index[i]] /\ j < i
        Rank(i) == Cardinality({j \in 1..n : Before(j, i)}) + 1
    IN  [k \in 1..n |-> index[CHOOSE i \in 1..n : Rank(i) = k]]

\* The Date_Watched strings in their string order.
WatchedOrder == <<"", "2025-07-01", "2025-07-02", "2025-07-03">>

WatchedRank(d) == CHOOSE i \in 1..Len(WatchedOrder) : WatchedOrder[i] = d

\* A row of the pool has a null Age, which makes Age a float64 column.
AgeIsFloat(pool) == \E i \in 1..Len(pool) : pool[i].Age = NaN

\* database_tab: the frame it is given sorted by Date_Sent; the search mask
\* when a term is typed; then the structured filter, whether or not a term
\* is typed; the display columns.
DatabaseView(frame, term, sel) ==
    LET sorted == SortByDateSentDesc(frame)
        Hit(i) == RawMatches(sorted, i, DOMAIN sorted[i], term)
        searched == IF term # "" THEN SelectSeq(Index(sorted), Hit)
                                 ELSE Index(sorted)
        Keep(i) == Passes(sorted[i], sel, "Scout")
    IN  Display("database", term, sel, sorted, SelectSeq(searched, Keep),
                DisplayCols)

\* disp_cols of executive_tab.
ExecutiveCols ==
    {"Player", "Club", "League", "Age", "DOB", "Position", "Category", "Scout",
     "Advanced", "CR", "PR", "Strengths", "Weaknesses", "Available?"}

\* executive_tab: the search mask when a term is typed, else the structured
\* filter.
ExecutiveView(table, term, sel, ageIsFloat) ==
    LET Hit(i) == GroupedMatches(table[i], term, ageIsFloat)
        Keep(i) == Passes(table[i], sel, "Category")
    IN  Display("executive", term, sel, table,
                IF term # "" THEN SelectSeq(Index(table), Hit)
                             ELSE SelectSeq(Index(table), Keep),
                ExecutiveCols)

\* agent_df of agent_tab: the consolidated records with a Date_Watched.
AgentFrame(table) ==
    LET Watched(g) == g.Date_Watched # "" IN SelectSeq(table, Watched)

\* agent_tab up to its list of players: the search mask when a term is
\* typed, else the structured filter; then the sort by the chosen column.
AgentView(table, term, sel, ageIsFloat, sortBy) ==
    LET input == AgentFrame(table)
        Hit(i) == GroupedMatches(input[i], term, ageIsFloat)
        Keep(i) == Passes(input[i], sel, "Category")
        kept == IF term # "" THEN SelectSeq(Index(input), Hit)
                             ELSE SelectSeq(Index(input), Keep)
        key == [i \in 1..Len(input) |->
                   IF sortBy = "Date_Watched" THEN WatchedRank(input[i].Date_Watched)
                                              ELSE input[i][sortBy]]
    IN  Display("agent", term, sel, input, SortIndexDesc(kept, key),
                IF input = <<>> THEN {} ELSE DOMAIN input[1])

\* temp_display_df of julian_tab: the consolidated records of the players
\* (Player, DOB) the secondary frame does not hold.
JulianFrame(table, secondary) ==
    LET NotHeld(g) == \A i \in 1..Len(secondary) :
                          ~(secondary[i].Player = g.Player /\ secondary[i].DOB = g.DOB)
    IN  SelectSeq(table, NotHeld)

\* The Add Players sub-tab of julian_tab: the structured filter, replaced
\* by the search mask over the unfiltered frame when a term is typed.
JulianView(table, secondary, term, sel, ageIsFloat) ==
    LET input == JulianFrame(table, secondary)
        Hit(i) == GroupedMatches(input[i], term, ageIsFloat)
        Keep(i) == Passes(input[i], sel, "Category")
    IN  IF term # ""
        THEN Display("julian", term, sel, input, SelectSeq(Index(input), Hit),
                     DisplayCols)
        ELSE Display("julian", term, sel, input, SelectSeq(Index(input), Keep),
                     DOMAIN input[1])

\* category_options of power_rankings_tab.
CategoryOptions == {"Yellow", "Blue", "Grey"}

\* power_rankings_tab: the records with a CR (every record has one after the
\* roll-up) of the selected position and category, sorted by the selected
\* rating, highest first.  The ratings offered are CR, PR and the attributes
\* of the position; sort_values raises KeyError for one that is no column
\* of the consolidated table.
PowerRankings(frame, selected_position, selected_profile, rating_type) ==
    LET Rated(i) == frame[i].CR # NaN
        AtPosition(i) == frame[i].Position = selected_position
        OfProfile(i) == frame[i].Category = selected_profile
        position_data == SelectSeq(SelectSeq(SelectSeq(Index(frame), Rated), AtPosition),
                                   OfProfile)
        raised == position_data # <<>> /\ rating_type \notin DOMAIN frame[1]
    IN  [tab |-> "rankings", position |-> selected_position,
         profile |-> selected_profile, by |-> rating_type, raised |-> raised,
         index |-> IF raised \/ position_data = <<>> THEN <<>>
                   ELSE SortIndexDesc(position_data,
                                      [i \in 1..Len(frame) |-> frame[i][rating_type]])]

\* ------------------------------------------------------------------- rows

\* A player row as add_player_to_sheet writes it: no assessment yet.
BaseRow ==
    [Entry_ID |-> "e1", Player |-> "Alice", Club |-> "ClubX", League |-> "L1",
     Age |-> 20, DOB |-> "01/00", Position |-> 9, Height |-> "182",
     Category |-> "Green", Source |-> "Data", Date_Sent |-> 1,
     Priority |-> "Clips", Scout |-> "Maxi", Date_Watched |-> "",
     Advance |-> "", Comment |-> "", CR |-> EmptyCell, PR |-> EmptyCell,
     Speed |-> EmptyCell, Reflexes |-> EmptyCell, Agent |-> ""] @@
    ("Passing Vision" :> EmptyCell) @@
    ("Contact Point" :> "") @@
    ("Last Spoke With Agent" :> "") @@
    ("Available?" :> "") @@
    ("Market Value" :> "") @@
    ("Contract Expires" :> "")

\* The values an Advance cell takes: the choices of the assessment form, a
\* blank cell and a value outside advance_mapping.
AdvanceValues == {"Yes", "Maybe", "No", "Tier 1", "Tier 2", "No Video", ""}

WatchedValues == {"", "2025-07-01"}

\* Rows that differ in their assessment status and Advance value.
RowsAdvance1 ==
    {[BaseRow EXCEPT !.Date_Watched = w, !.Advance = a] :
        w \in WatchedValues, a \in AdvanceValues}

RowsAdvance2 ==
    {[BaseRow EXCEPT !.Scout = "Adam", !.Date_Watched = "2025-07-02", !.Advance = "No"],
     [BaseRow EXCEPT !.Scout = "Adam", !.Date_Watched = "2025-07-02", !.Advance = "Maybe"],
     [BaseRow EXCEPT !.Scout = "Adam", !.Advance = "Yes"]}

\* Rows that differ in their ratings: 3 is 1.5, 7 is 3.5, 8 is 4.0.
RowsRatings1 ==
    {[BaseRow EXCEPT !.Date_Watched = w, !.Advance = "Yes", !.PR = 6,
                     !.CR = c, !.Speed = s, !["Passing Vision"] = p] :
        w \in WatchedValues, c \in {8, TextCell}, s \in {EmptyCell, 3, 7},
        p \in {3, 7}}

RowsRatings2 ==
    {[BaseRow EXCEPT !.Scout = "Adam", !.Date_Watched = "2025-07-02",
                     !.CR = 7, !.PR = 5, !.Speed = 7, !["Passing Vision"] = 3],
     [BaseRow EXCEPT !.Scout = "Adam", !.Advance = "Yes",
                     !.CR = 8, !.PR = 8, !.Speed = 8, !["Passing Vision"] = 8]}

\* Watched rows that differ in their identity, scout, comment and date sent.
RowsGrouping1 ==
    {[BaseRow EXCEPT !.Age = a, !.Position = p, !.Date_Sent = d,
                     !.Date_Watched = "2025-07-01",
                     !.Scout = sc[1], !.Comment = sc[2]] :
        a \in {20, EmptyCell}, p \in {4, 9}, d \in {1, 2},
        sc \in {<<"Maxi", "">>, <<"Adam", "">>, <<"Maxi", "Done">>}}

RowsGrouping2 ==
    {[BaseRow EXCEPT !.Player = "Bob", !.Entry_ID = "e2", !.Date_Sent = 2],
     [BaseRow EXCEPT !.Age = TextCell, !.Position = 4, !.Entry_ID = "e3"]}

\* Rows that differ in the fields main() reduces with 'last' (Height,
\* Category, Source, Date_Sent, Date_Watched) and in those it reduces with
\* 'first' (the agent fields, Market Value, Contract Expires).
LastFieldValues ==
    {[Height |-> "182", Category |-> "Green", Source |-> "Data",
      Date_Watched |-> "2025-07-01"],
     [Height |-> "", Category |-> "", Source |-> "", Date_Watched |-> ""]}

FirstFieldValues ==
    {[Agent |-> "AgentA", Contact |-> "Malek", Spoke |-> "2025/01/01",
      Available |-> "Yes", Value |-> "1m", Expires |-> "2026"],
     [Agent |-> "", Contact |-> "", Spoke |-> "",
      Available |-> "", Value |-> "2m", Expires |-> "2027"]}

FieldsRow(scout, d, l, f) ==
    [BaseRow EXCEPT !.Scout = scout, !.Date_Sent = d,
                    !.Height = l.Height, !.Category = l.Category,
                    !.Source = l.Source, !.Date_Watched = l.Date_Watched,
                    !.Agent = f.Agent, !["Contact Point"] = f.Contact,
                    !["Last Spoke With Agent"] = f.Spoke,
                    !["Available?"] = f.Available,
                    !["Market Value"] = f.Value,
                    !["Contract Expires"] = f.Expires]

RowsFields1 ==
    {FieldsRow("Maxi", d, l, f) :
        d \in {1, 2}, l \in LastFieldValues, f \in FirstFieldValues}

RowsFields2 ==
    {FieldsRow("Adam", 3, l, f) : l \in LastFieldValues, f \in FirstFieldValues}

\* Rows of three players that differ in what the views filter on: position,
\* age, Advance, Available?, scout and category.
ViewRow(player, age, pos, scout, watched, advance, category, available, cr) ==
    [BaseRow EXCEPT !.Player = player, !.Age = age, !.Position = pos,
                    !.Scout = scout, !.Date_Watched = watched,
                    !.Advance = advance, !.Category = category,
                    !["Available?"] = available, !.CR = cr, !.PR = cr]

RowsViews1 ==
    {ViewRow("Alice", 20, 9, "Maxi", "2025-07-01", "Yes", "Yellow", "Yes", 8),
     ViewRow("Alice", 20, 9, "Adam", "2025-07-02", "No", "Yellow", "", 5),
     ViewRow("Bob", 25, 4, "Maxi", "", "", "Grey", "No", EmptyCell),
     ViewRow("Bob", 25, 4, "Adam", "2025-07-02", "Yes", "Green", "No", 6)}

\* Rows of the primary store for the panels: with and without comment and
\* date, and two players of one position and category.
RowsPanels1 ==
    RowsViews1 \cup
    {[ViewRow("Alice", 20, 9, "Maxi", "2025-07-01", "Yes", "Yellow", "Yes", 8)
         EXCEPT !.Comment = "Done"],
     ViewRow("Alice", 20, 9, "Maxi", "", "", "Yellow", "", EmptyCell),
     ViewRow("Bob", 25, 9, "Maxi", "2025-07-01", "Yes", "Yellow", "Yes", 9)}

\* Rows of the primary store for the notes: two assessments of one entry by
\* two scouts, one with a comment note and one without.
RowsNotes1 ==
    {[ViewRow("Alice", 20, 9, "Maxi", "2025-07-01", "Yes", "Yellow", "Yes", 8)
         EXCEPT !.Comment = "Done"],
     ViewRow("Alice", 20, 9, "Adam", "2025-07-02", "No", "Yellow", "", 5)}

RowsViews2 ==
    {ViewRow("Alice", 20, 9, "Malek", "", "", "Yellow", "Yes", EmptyCell),
     ViewRow("Cara", 30, 1, "Malek", "2025-07-01", "Maybe", "Blue", "Yes", 4)}

\* The rows of the stores the write handlers start from: a player of the
\* primary store, and a player copied into the secondary store.
RowsStores1 ==
    {ViewRow("Alice", 20, 9, "Maxi", "2025-07-01", "Yes", "Yellow", "Yes", 8),
     ViewRow("Alice", 20, 9, "Maxi", "", "", "Yellow", "", EmptyCell)}

RowsStores2 ==
    {[ViewRow("Cara", 30, 1, "Julian", "", "", "Blue", "Yes", EmptyCell)
         EXCEPT !.Entry_ID = "e2"],
     [ViewRow("Cara", 30, 1, "Julian", "2025-07-01", "Maybe", "Blue", "Yes", 4)
         EXCEPT !.Entry_ID = "e2", !.Comment = "Done"]}

\* The secondary store of the agent handlers: as above, or the player of the
\* primary store copied into it and then assessed there.
RowsAgents2 ==
    RowsStores2 \cup
    {[ViewRow("Alice", 20, 9, "Julian", "2025-07-02", "Yes", "Yellow", "Yes", 7)
         EXCEPT !.Entry_ID = "e3"]}

\* ----------------------------------------------------------------- writes

\* The scouts the Agent and Julian tabs are open to ('Julian' for the
\* accented name of the source).
AgentScouts == {"Julian", "Malek", "Kristian", "Kristoffer", "Casper"}

\* The day of the modelled session, datetime.now(), as a day ordinal.
Today == 3

\* str(uuid.uuid4())[:8]: an Entry_ID no row holds; n is the number of rows
\* written before it.
EntryId(n) == "e" \o Str(n + 1)

\* What a store call of a write handler does: "none" is every call
\* succeeding, "first" the first call raising, "mid" a call raising after
\* the first write went through, "note" add_comment_to_cell returning False.
Faults == {"none", "first", "mid", "note"}

\* The notes of a row no note was written to.
NoNotes == ("Comment" :> "") @@ ("Available?" :> "")

\* The notes of a row a store comes to hold: a row with a Comment cell got
\* the cell and its note from one call of add_comment_to_cell.
NotesOf(row) == [NoNotes EXCEPT !["Comment"] = IF row.Comment # "" THEN "seen" ELSE ""]

\* The notes of a sheet after a handler that left it with the rows of sheet
\* and whose calls of add_comment_to_cell put text on the cells of column
\* col in the rows noted (0-based among the data rows).
NotesAfter(notes, sheet, noted, col, text) ==
    [i \in 1..Len(sheet) |->
        LET old == IF i <= Len(notes) THEN notes[i] ELSE NoNotes
        IN  IF i - 1 \in noted THEN [old EXCEPT ![col] = text] ELSE old]

\* get_cell_note: the note of a cell of a sheet, '' when it has none.
GetCellNote(notes, r, col) ==
    IF r + 1 \in DOMAIN notes THEN notes[r + 1][col] ELSE ""

\* get_cell_note_with_cache for row r (0-based among the data rows): the
\* key is made of the Entry_ID and the column name; a key the session has
\* fetched is answered from fetched_notes, another is fetched and kept.
GetCellNoteWithCache(fetched, notes, r, col, entry_id) ==
    LET cache_key == <<entry_id, col>>
    IN  IF cache_key \in DOMAIN fetched
        THEN [note |-> fetched[cache_key], fetched |-> fetched]
        ELSE [note |-> GetCellNote(notes, r, col),
              fetched |-> fetched @@ (cache_key :> GetCellNote(notes, r, col))]

\* The Assessment History of player_view_tab: for each assessed row of the
\* player, in the order of the frame, the row and the comment read through
\* get_cell_note_with_cache with the row's Entry_ID.
RECURSIVE AssessmentHistory(_, _, _, _, _)
AssessmentHistory(fetched, notes, frame, assessed_entries, k) ==
    IF k > Len(assessed_entries) THEN [shown |-> <<>>, fetched |-> fetched]
    ELSE LET assessment == frame[assessed_entries[k]]
             idx == assessment["_original_sheet_row"]
             read == GetCellNoteWithCache(fetched, notes, idx, "Comment",
                                          assessment.Entry_ID)
             rest == AssessmentHistory(read.fetched, notes, frame, assessed_entries, k + 1)
         IN  [shown |-> <<[idx |-> idx, actual_comment |-> read.note]>> \o rest.shown,
              fetched |-> rest.fetched]

\* A cell of a frame as the write handlers put it into a sheet row: a null
\* of a numeric column becomes ''.
AsCell(c, v) ==
    IF c \in Range(NumericCols) THEN (IF v = NaN THEN EmptyCell ELSE v) ELSE v

\* The view modes with a Watched view that wants both the comment and the
\* date.
PanelDisplayWatchedBoth(frame, index, mode) ==
    LET Unwatched(i) == frame[i].Comment = "" /\ frame[i].Date_Watched = ""
        Watched(i) == frame[i].Comment # "" /\ frame[i].Date_Watched # ""
    IN  IF mode = "Unwatched Players" THEN SelectSeq(index, Unwatched)
        ELSE IF mode = "Watched Players" THEN SelectSeq(index, Watched)
        ELSE index

\* The display of scout_panel_tab and of the Make Reports sub-tab: the
\* positions of the frame's rows in the chosen view mode.
PanelDisplay(frame, index, mode) ==
    LET Unwatched(i) == frame[i].Comment = "" /\ frame[i].Date_Watched = ""
        Watched(i) == frame[i].Comment # "" \/ frame[i].Date_Watched # ""
    IN  IF mode = "Unwatched Players" THEN SelectSeq(index, Unwatched)
        ELSE IF mode = "Watched Players" THEN SelectSeq(index, Watched)
        ELSE index

ViewModes == {"Unwatched Players", "Watched Players", "All Assigned Players"}

\* latest_entry: the last displayed row of the player.
LatestEntry(frame, display, player) ==
    LET OfPlayer(i) == frame[i].Player = player
        entries == SelectSeq(display, OfPlayer)
    IN  frame[entries[Len(entries)]]

\* scout_player_entries: the rows of the frame with the submission's key
\* (Player, Scout, Entry_ID).
KeyEntries(frame, player, scout, entry) ==
    LET HasKey(i) == /\ frame[i].Player = player
                     /\ frame[i].Scout = scout
                     /\ frame[i].Entry_ID = entry
    IN  SelectSeq(Index(frame), HasKey)

\* assessment_data of the assessment form without its Comment: the cells
\* update_assessment_in_sheet writes, in the order it writes them.
AssessmentCells(data) ==
    <<"Advance", "Date_Watched", "Position", "CR", "PR">> \o PositionAttributes[data.Position]

AssessmentValue(data, c) ==
    IF c = "Advance" THEN data.Advance
    ELSE IF c = "Date_Watched" THEN DateStr(Today)
    ELSE IF c = "Position" THEN data.Position
    ELSE data.rating

\* Row r (0-based among the data rows) of a sheet with the first n of the
\* cells written.
WriteCells(sheet, r, cells, value, n) ==
    [sheet EXCEPT ![r + 1] =
        [c \in DOMAIN sheet[r + 1] |->
            IF \E k \in 1..n : cells[k] = c THEN value[c] ELSE sheet[r + 1][c]]]

\* update_assessment_in_sheet: the cells one by one, then the note, which
\* puts 'Done' into the Comment cell; the cache is cleared and True
\* returned unless a call raised.
UpdateAssessment(sheet, r, data, fault) ==
    LET cells == AssessmentCells(data)
        Value == [c \in Range(cells) |-> AssessmentValue(data, c)]
        Done == [c \in {"Comment"} |-> "Done"]
    IN  IF fault = "first" THEN [sheet |-> sheet, ok |-> FALSE, noted |-> {}]
        ELSE IF fault = "mid"
        THEN [sheet |-> WriteCells(sheet, r, cells, Value, 1), ok |-> FALSE,
              noted |-> {}]
        ELSE IF fault = "note"
        THEN [sheet |-> WriteCells(sheet, r, cells, Value, Len(cells)), ok |-> TRUE,
              noted |-> {}]
        ELSE [sheet |-> WriteCells(WriteCells(sheet, r, cells, Value, Len(cells)),
                                   r, <<"Comment">>, Done, 1),
              ok |-> TRUE, noted |-> {r}]

\* original_data of a submission without a row of its key, and the row
\* add_new_assessment_row builds from it and the assessment: the identity
\* fields of latest_entry, the scout, the assessment cells, '' elsewhere.
NewAssessmentRow(latest, scout, data, comment) ==
    [c \in DOMAIN BaseRow |->
        IF c \in Range(AssessmentCells(data)) THEN AssessmentValue(data, c)
        ELSE IF c = "Scout" THEN scout
        ELSE IF c = "Comment" THEN comment
        ELSE IF c \in {"Entry_ID", "Player", "Club", "League", "Age", "DOB",
                       "Position", "Height", "Category", "Date_Sent", "Priority"}
        THEN AsCell(c, latest[c])
        ELSE IF c \in Range(NumericCols) THEN EmptyCell
        ELSE ""]

\* add_new_assessment_row: append_row, then get_all_values and the note on
\* the last row; the cache is cleared and True returned unless a call raised.
AddNewAssessmentRow(sheet, latest, scout, data, fault) ==
    IF fault = "first" THEN [sheet |-> sheet, ok |-> FALSE, noted |-> {}]
    ELSE IF fault = "mid"
    THEN [sheet |-> Append(sheet, NewAssessmentRow(latest, scout, data, "")),
          ok |-> FALSE, noted |-> {}]
    ELSE IF fault = "note"
    THEN [sheet |-> Append(sheet, NewAssessmentRow(latest, scout, data, "")),
          ok |-> TRUE, noted |-> {}]
    ELSE [sheet |-> Append(sheet, NewAssessmentRow(latest, scout, data, "Done")),
          ok |-> TRUE, noted |-> {Len(sheet)}]

\* The submission handler of the assessment form: the row of the key in the
\* frame is updated in place, and a new row appended when the frame holds
\* none.
SubmitAssessment(sheet, frame, latest, player, scout, data, fault) ==
    LET entries == KeyEntries(frame, player, scout, latest.Entry_ID)
    IN  IF entries # <<>>
        THEN UpdateAssessment(sheet, frame[entries[Len(entries)]]["_original_sheet_row"],
                              data, fault)
        ELSE AddNewAssessmentRow(sheet, latest, scout, data, fault)

\* The assessment a scout submits: Advance No and 3.0 on every slider; the
\* position is the one the form is opened for.
AssessmentData == {[Advance |-> "No", Position |-> 9, rating |-> 6]}

\* Most rows a store holds when the write handlers run.
MaxStoreRows == 3

\* The cells update_agent_assessment_in_sheet writes with update_cell, in
\* the order it writes them; Available? is written by the note call.
AgentCells == <<"Agent", "Contact Point", "Last Spoke With Agent">>

\* update_agent_assessment_in_sheet: the cells one by one, then the note,
\* which puts the value into the Available? cell; the cache is cleared and
\* True returned unless a call raised.
UpdateAgentAssessment(sheet, r, data, fault) ==
    LET Value == data
    IN  IF fault = "first" THEN [sheet |-> sheet, ok |-> FALSE, noted |-> {}]
        ELSE IF fault = "mid"
        THEN [sheet |-> WriteCells(sheet, r, AgentCells, Value, 1), ok |-> FALSE,
              noted |-> {}]
        ELSE IF fault = "note"
        THEN [sheet |-> WriteCells(sheet, r, AgentCells, Value, Len(AgentCells)),
              ok |-> TRUE, noted |-> {}]
        ELSE [sheet |-> WriteCells(WriteCells(sheet, r, AgentCells, Value, Len(AgentCells)),
                                   r, <<"Available?">>, Value, 1),
              ok |-> TRUE, noted |-> {r}]

\* At most one store call of an agent update goes wrong: the call for the
\* k-th matching row of a store (1 primary, 2 secondary); store 0 is none.
FaultPlans ==
    {[store |-> 0, k |-> 0, kind |-> "none"]} \cup
    {[store |-> st, k |-> k, kind |-> f] :
        st \in {1, 2}, k \in 1..MaxStoreRows, f \in Faults \ {"none"}}

FaultOf(plan, store, k) ==
    IF plan.store = store /\ plan.k = k THEN plan.kind ELSE "none"

\* The loop of agent_tab over the matching rows of one store, from the k-th
\* on: the sheet it leaves, the rows whose update returned False and the
\* number of updates that returned True.  The loop over the primary store
\* breaks at the first False; the loop over the secondary store goes on.
RECURSIVE FanOut(_, _, _, _, _, _, _)
FanOut(sheet, rows, k, data, plan, store, breaks) ==
    IF k > Len(rows) THEN [sheet |-> sheet, failed |-> {}, succeeded |-> 0, noted |-> {}]
    ELSE LET res == UpdateAgentAssessment(sheet, rows[k], data, FaultOf(plan, store, k))
         IN  IF ~res.ok /\ breaks
             THEN [sheet |-> res.sheet, failed |-> {rows[k]}, succeeded |-> 0,
                   noted |-> {}]
             ELSE LET rest == FanOut(res.sheet, rows, k + 1, data, plan, store, breaks)
                  IN  [sheet |-> rest.sheet,
                       failed |-> rest.failed \cup (IF res.ok THEN {} ELSE {rows[k]}),
                       succeeded |-> rest.succeeded + (IF res.ok THEN 1 ELSE 0),
                       noted |-> rest.noted \cup res.noted]

\* matching_rows: the sheet rows of a frame's rows with the Player and DOB.
MatchingRows(frame, player, dob) ==
    LET Same(i) == frame[i].Player = player /\ frame[i].DOB = dob
        hits == SelectSeq(Index(frame), Same)
    IN  [k \in 1..Len(hits) |-> frame[hits[k]]["_original_sheet_row"]]

\* The submission handler of agent_tab for latest_entry: what it leaves in
\* the two stores, what it reports, and whether an update cleared the cache.
SubmitAgentUpdate(primarySheet, secondarySheet, primary, secondary, latest, data, plan) ==
    LET rows1 == MatchingRows(primary, latest.Player, latest.DOB)
        rows2 == MatchingRows(secondary, latest.Player, latest.DOB)
        out1 == FanOut(primarySheet, rows1, 1, data, plan, 1, TRUE)
        all_success == out1.failed = {}
        out2 == IF all_success THEN FanOut(secondarySheet, rows2, 1, data, plan, 2, FALSE)
                               ELSE [sheet |-> secondarySheet, failed |-> {}, succeeded |-> 0,
                                     noted |-> {}]
    IN  IF rows1 = <<>>
        THEN [sheet1 |-> primarySheet, sheet2 |-> secondarySheet, cleared |-> FALSE,
              messages |-> {"No matches found"}, failed1 |-> {}, failed2 |-> {},
              noted1 |-> {}, noted2 |-> {}]
        ELSE [sheet1 |-> out1.sheet, sheet2 |-> out2.sheet,
              noted1 |-> out1.noted, noted2 |-> out2.noted,
              cleared |-> out1.succeeded + out2.succeeded > 0,
              messages |->
                  (IF all_success THEN {"All entries updated successfully"}
                                  ELSE {"Failed to update row"}) \cup
                  (IF out2.failed # {} THEN {"Failed to update Julian's sheet"} ELSE {}),
              failed1 |-> out1.failed, failed2 |-> out2.failed]

\* The updates an agent contact submits; the date is today's.
AgentData ==
    {("Agent" :> "AgentB") @@ ("Contact Point" :> "Malek") @@
     ("Last Spoke With Agent" :> "2025/07/03") @@ ("Available?" :> a) :
        a \in {"Yes", "No"}}

\* exclude_columns of the bulk copy.
ExcludeColumns ==
    {"Date_Watched", "Advance", "CR", "PR", "Select", "Advanced", "Advanced %",
     "Advance Total", "# Reports", "Strengths", "Weaknesses"} \cup Range(AllAttributes)

\* new_row of the bulk copy for one selected row of the display: a new
\* Entry_ID, fixed Scout, Priority and Date_Sent, Available? of the first
\* row of the player in scouting_df, the display's other cells.
CopiedRow(selected, primary, n) ==
    LET Same(i) == primary[i].Player = selected.Player /\ primary[i].DOB = selected.DOB
        hits == SelectSeq(Index(primary), Same)
    IN  [c \in DOMAIN BaseRow |->
            IF c = "Entry_ID" THEN EntryId(n)
            ELSE IF c = "Scout" THEN "Julian"
            ELSE IF c = "Priority" THEN "High"
            ELSE IF c = "Date_Sent" THEN Today
            ELSE IF c = "Available?"
            THEN (IF hits = <<>> THEN "" ELSE primary[hits[1]]["Available?"])
            ELSE IF c \in DOMAIN selected /\ c \notin ExcludeColumns THEN AsCell(c, selected[c])
            ELSE IF c \in Range(NumericCols) THEN EmptyCell
            ELSE ""]

\* selected_players_df of player_selector: the displayed rows of the
\* selected players.
SelectedRows(display, ids) ==
    LET Chosen(row) == <<row.Player, row.DOB>> \in ids IN SelectSeq(display, Chosen)

\* The Add Player forms submitted for one scout: the player's fields and
\* the scouts selected.
\* Submissions of the manual form for several scouts.
IntakeForms ==
    {[player |-> [BaseRow EXCEPT !.Player = "Bob", !.Age = 25, !.Position = 4,
                                 !.Category = "Grey"],
      scout |-> scouts] : scouts \in {<<"Maxi">>, <<"Maxi", "Adam">>}}

PlayerForms ==
    {[player |-> [BaseRow EXCEPT !.Player = "Bob", !.Age = 25, !.Position = 4,
                                 !.Category = "Grey"],
      scout |-> <<"Maxi">>],
     [player |-> [BaseRow EXCEPT !.Category = "Yellow"], scout |-> <<"Adam">>]}

\* The comments a scout types into an assessment form; the form rejects an
\* empty one.
Comments == {"good", "raw"}

\* The comment an agent contact types into the agent form.
AgentComment == "called"

\* ---------------------------------------------------------------- scraper

\* src/tmscraper.py.  A profile page is held as what the selectors of
\* scrape_player_info find on it: whether it has the headline, the text nodes
\* of the headline, and the texts of its fields, '' for a field it lacks.  A market value the scraper returns is
\* held in thousands of euro: 500 stands for 0.5 (millions).

\* The character of a text at a position, '' beyond its end.
CharAt(text, i) == IF i >= 1 /\ i <= Len(text) THEN SubSeq(text, i, i) ELSE ""

IsDigit(ch) == \E d \in 1..10 : Digits[d] = ch

\* The length of the run of digits of a text from position i on, at most
\* most long: what \d{1,most} and \d+ consume there.
RECURSIVE DigitRun(_, _, _)
DigitRun(text, i, most) ==
    IF most = 0 \/ ~IsDigit(CharAt(text, i)) THEN 0
    ELSE 1 + DigitRun(text, i + 1, most - 1)

\* int() of a text of digits; 0 for ''.
RECURSIVE ToNat(_)
ToNat(text) ==
    IF text = "" THEN 0
    ELSE 10 * ToNat(SubSeq(text, 1, Len(text) - 1))
             + ((CHOOSE d \in 1..10 : Digits[d] = CharAt(text, Len(text))) - 1)

\* The first position from i on whose character is one of chars, 0 if none.
RECURSIVE FirstOf(_, _, _)
FirstOf(text, i, chars) ==
    IF i > Len(text) THEN 0
    ELSE IF CharAt(text, i) \in chars THEN i
    ELSE FirstOf(text, i + 1, chars)

\* The length of the run of characters of chars from position i on.
RECURSIVE RunOf(_, _, _)
RunOf(text, i, chars) ==
    IF CharAt(text, i) \in chars THEN 1 + RunOf(text, i + 1, chars) ELSE 0

DigitChars == {Digits[d] : d \in 1..10}

\* _format_date_of_birth: re.match of (\d{1,2})\.(\d{1,2})\.(\d{4}) at the
\* start of the text, then month.zfill(2) + '/' + year[-2:].
FormatDateOfBirth(dob) ==
    IF dob = "" \/ dob = "N/A" THEN "N/A"
    ELSE LET d == DigitRun(dob, 1, 2)
             m == DigitRun(dob, d + 2, 2)
             y == DigitRun(dob, d + m + 3, 4)
             month == SubSeq(dob, d + 2, d + m + 1)
             year == SubSeq(dob, d + m + 3, d + m + 6)
         IN  IF /\ d >= 1 /\ CharAt(dob, d + 1) = "."
                /\ m >= 1 /\ CharAt(dob, d + m + 2) = "."
                /\ y = 4
             THEN (IF Len(month) < 2 THEN "0" \o month ELSE month)
                      \o "/" \o SubSeq(year, 3, 4)
             ELSE "N/A"

\* _format_height: re.search of (\d+)[,.]?(\d*); a whole part of one digit
\* is metres and is followed by the decimals padded to two, a longer one is
\* centimetres already.
FormatHeight(height) ==
    IF height = "" \/ height = "N/A" THEN "N/A"
    ELSE LET p == FirstOf(height, 1, DigitChars)
             w == RunOf(height, p, DigitChars)
             sep == IF CharAt(height, p + w) \in {",", "."} THEN 1 ELSE 0
             f == RunOf(height, p + w + sep, DigitChars)
             whole_part == SubSeq(height, p, p + w - 1)
             found == SubSeq(height, p + w + sep, p + w + sep + f - 1)
             decimal_part == IF found = "" THEN "0" ELSE found
         IN  IF p = 0 THEN "N/A"
             ELSE IF Len(whole_part) = 1
             THEN whole_part \o decimal_part
                      \o (IF Len(decimal_part) < 2 THEN "0" ELSE "")
             ELSE whole_part

\* The text without its spaces.
RECURSIVE WithoutSpaces(_)
WithoutSpaces(text) ==
    IF text = "" THEN ""
    ELSE (IF CharAt(text, 1) = " " THEN "" ELSE CharAt(text, 1))
             \o WithoutSpaces(SubSeq(text, 2, Len(text)))

\* round(): the whole number nearest to num / den, the even one of two that
\* are equally near.
RoundHalfEven(num, den) ==
    LET q == num \div den
        r == num % den
    IN  IF 2 * r < den THEN q
        ELSE IF 2 * r > den THEN q + 1
        ELSE IF q % 2 = 0 THEN q ELSE q + 1

RECURSIVE Pow10(_)
Pow10(n) == IF n = 0 THEN 1 ELSE 10 * Pow10(n - 1)

\* What _format_market_value returns for a text without a number.
MarketNA == -1

\* _format_market_value: re.search of [\d.,]+ and an optional unit k, m or b
\* in the text without spaces, lower-cased; the commas of the number become
\* points and float() reads it; thousands are divided by 1000 and rounded to
\* two decimals, millions rounded to one decimal, billions multiplied by
\* 1000 and rounded to one decimal.
FormatMarketValue(market_value) ==
    IF market_value = "" \/ market_value = "N/A" THEN MarketNA
    ELSE LET cleaned == Lower(WithoutSpaces(market_value))
             numeric == DigitChars \cup {".", ","}
             p == FirstOf(cleaned, 1, numeric)
             n == RunOf(cleaned, p, numeric)
             number_str == SubSeq(cleaned, p, p + n - 1)
             unit == IF CharAt(cleaned, p + n) \in {"k", "m", "b"}
                     THEN CharAt(cleaned, p + n) ELSE ""
             point == FirstOf(number_str, 1, {".", ","})
             whole == IF point = 0 THEN number_str ELSE SubSeq(number_str, 1, point - 1)
             frac == IF point = 0 THEN "" ELSE SubSeq(number_str, point + 1, n)
             isFloat == /\ FirstOf(frac, 1, {".", ","}) = 0
                        /\ Len(whole) + Len(frac) > 0
             num == ToNat(whole \o frac)
             den == Pow10(Len(frac))
         IN  IF p = 0 \/ ~isFloat THEN MarketNA
             ELSE IF unit = "k" THEN 10 * RoundHalfEven(num, den * 10)
             ELSE IF unit = "b" THEN 100 * RoundHalfEven(num * 10000, den)
             ELSE 100 * RoundHalfEven(num * 10, den)

\* A shirt number among the text nodes of the headline: ^#\d+$.
IsShirtNumber(text) ==
    /\ CharAt(text, 1) = "#"
    /\ Len(text) > 1
    /\ DigitRun(text, 2, Len(text)) = Len(text) - 1

\* What scrape_player_info returns for a page that failed.
None == <<>>

\* scrape_player_info: None when the request or the parsing raised, else the
\* record of the fields found, 'N/A' for each field the page does not have,
\* with the formatting applied.  The name is 'N/A' for a page without
\* headline, the text nodes of the headline without shirt numbers joined by
\* spaces, or what is left of the headline's text when it has no other node.
ScrapePlayerInfo(page) ==
    IF page.fetch # "ok" THEN None
    ELSE LET IsName(text) == ~IsShirtNumber(text)
             name_parts == SelectSeq(page.headline, IsName)
             Spaced(list) == [i \in 1..Len(list) |->
                                 IF i = 1 THEN list[i] ELSE " " \o list[i]]
             Concatenated(list) ==
                 LET RECURSIVE Cat(_)
                     Cat(k) == IF k = 0 THEN "" ELSE Cat(k - 1) \o Spaced(list)[k]
                 IN  Cat(Len(list))
         IN  [name |-> IF ~page.h1 THEN "N/A"
                       ELSE IF name_parts # <<>> THEN Concatenated(name_parts)
                       ELSE "",
              club |-> IF page.club = "" THEN "N/A" ELSE page.club,
              age |-> page.age,
              dob |-> FormatDateOfBirth(IF page.dob = "" THEN "N/A" ELSE page.dob),
              height |-> FormatHeight(IF page.height = "" THEN "N/A" ELSE page.height),
              value |-> FormatMarketValue(IF page.value = "" THEN "N/A" ELSE page.value)]

\* str() of a market value the scraper returned, as the sheet holds it.
MarketCell(v) ==
    IF v = MarketNA THEN "N/A"
    ELSE LET frac == v % 1000
             digits == (IF frac < 100 THEN "0" ELSE "") \o (IF frac < 10 THEN "0" ELSE "")
                           \o Str(frac)
             RECURSIVE Trim(_)
             Trim(t) == IF Len(t) > 1 /\ CharAt(t, Len(t)) = "0"
                        THEN Trim(SubSeq(t, 1, Len(t) - 1)) ELSE t
         IN  Str(v \div 1000) \o "." \o Trim(digits)

\* The profile pages: one that cannot be fetched, the page of Dana with her
\* shirt number in the headline, and pages without headline or without a
\* name in it.
DanaPage ==
    [fetch |-> "ok", h1 |-> TRUE, headline |-> <<"#10", "Dana">>, club |-> "ClubX",
     age |-> 28, dob |-> "19.10.1996", height |-> "1,82 m", value |-> "€500k"]

Pages ==
    {[DanaPage EXCEPT !.fetch = "error"],
     DanaPage,
     [DanaPage EXCEPT !.h1 = FALSE, !.headline = <<>>, !.club = "", !.dob = "",
                      !.height = "", !.value = ""],
     [DanaPage EXCEPT !.headline = <<"#10">>]}

\* Texts of the fields the formatting is applied to.
DobTexts == {"19.10.1996", "3.5.1996", "1996", "19.10.96", "Oct 19, 1996", ""}

HeightTexts == {"1,82 m", "1,9 m", "2 m", "1.82m", "182 cm", "tall", ""}

ValueTexts == {"€500k", "€125k", "€50k", "€6.00m", "€1.25m", "€1.5b", "€ 2,5 M", "-", ""}

\* The page of Dana with each of these texts in its fields.
FormatPages ==
    {[DanaPage EXCEPT !.dob = d, !.height = h, !.value = v] :
        d \in DobTexts, h \in HeightTexts, v \in ValueTexts}

\* The scouts selected in the form of the TM link.
ScoutSelections == {<<"Maxi">>, <<"Maxi", "Adam">>}

\* ---------------------------------------------------------------- actions

\* Both stores hold a row: main() does not get past its first sort of an
\* empty frame, so no page renders before each sheet has one.
InitWith(rows1, rows2) ==
    /\ sheet1 \in {<<r>> : r \in rows1}
    /\ sheet2 \in {<<r>> : r \in rows2}
    /\ cache1 = <<>>
    /\ cache2 = <<>>
    /\ pc = "idle"
    /\ scouting_df = <<>>
    /\ julian_df = <<>>
    /\ grouped = <<>>
    /\ view = <<>>
    /\ report = <<>>
    /\ notes1 = [i \in 1..Len(sheet1) |-> NotesOf(sheet1[i])]
    /\ notes2 = [i \in 1..Len(sheet2) |-> NotesOf(sheet2[i])]
    /\ fetched_notes = <<>>
    /\ writers = <<>>

\* A page render up to the tabs: main() loads and sorts both stores, merges
\* them and rolls the pool up.
Main ==
    /\ pc = "idle"
    /\ Len(sheet1) > 0 /\ Len(sheet2) > 0
    /\ CachedLoad(cache1, sheet1) # <<>> /\ CachedLoad(cache2, sheet2) # <<>>
    /\ LET loaded1 == CachedLoad(cache1, sheet1)
           loaded2 == CachedLoad(cache2, sheet2)
       IN  /\ cache1' = <<loaded1>>
           /\ cache2' = <<loaded2>>
           /\ scouting_df' = LoadAndSort(loaded1)
           /\ julian_df' = LoadAndSort(loaded2)
           /\ grouped' = Rollup(Concat(LoadAndSort(loaded1), LoadAndSort(loaded2)))
    /\ pc' = "tabs"
    /\ view' = <<>>
    /\ report' = <<>>
    /\ UNCHANGED <<sheet1, sheet2, notes1, notes2, fetched_notes, writers>>

\* load_scouting_data while the store may be down: a cached frame is
\* returned as it is; else the rows are read, or the read raises and the
\* function returns pd.DataFrame(), the frame without rows or columns, which
\* st.cache_data keeps like any other return value.
LoadOrEmpty(cache, sheet, down) ==
    IF cache # <<>> THEN cache[1]
    ELSE IF down THEN <<>>
    ELSE LoadScoutingData(sheet)

\* A page render during which a load of a store fails, or for which the
\* cache holds the frame of a failed load: main() adds _original_sheet_row
\* to the empty frame and sorts it by Date_Sent, a column it does not have,
\* and sort_values raises KeyError.  The primary store is loaded and sorted
\* first; the secondary store is loaded only when that went through.
MainStoreDown ==
    /\ pc = "idle"
    /\ Len(sheet1) > 0 /\ Len(sheet2) > 0
    /\ \E down \in SUBSET {1, 2} :
       LET loaded1 == LoadOrEmpty(cache1, sheet1, 1 \in down)
           loaded2 == LoadOrEmpty(cache2, sheet2, 2 \in down)
       IN  /\ 1 \in down => cache1 = <<>>
           /\ 2 \in down => cache2 = <<>> /\ loaded1 # <<>>
           /\ loaded1 = <<>> \/ loaded2 = <<>>
           /\ cache1' = <<loaded1>>
           /\ cache2' = IF loaded1 = <<>> THEN cache2 ELSE <<loaded2>>
    /\ pc' = "raised"
    /\ view' = <<>>
    /\ report' = <<>>
    /\ UNCHANGED <<sheet1, sheet2, notes1, notes2, scouting_df, julian_df, grouped,
                   fetched_notes, writers>>

\* The user reloads the page after a script run that ended in an exception.
Rerun ==
    /\ pc = "raised"
    /\ pc' = "idle"
    /\ UNCHANGED <<sheet1, sheet2, notes1, notes2, cache1, cache2, scouting_df,
                   julian_df, grouped, view, report, fetched_notes, writers>>

\* The render ends; the frames of main() are its locals and end with it.
EndRun ==
    /\ pc = "tabs"
    /\ pc' = "idle"
    /\ scouting_df' = <<>>
    /\ julian_df' = <<>>
    /\ grouped' = <<>>
    /\ view' = <<>>
    /\ UNCHANGED <<sheet1, sheet2, notes1, notes2, cache1, cache2, report,
                   fetched_notes, writers>>

\* worksheet.append_row on the primary store from a tab of the render
\* (add_player_to_sheet, add_new_assessment_row), st.cache_data.clear() and
\* st.rerun().
\* The rows drawn are the rows the store comes to hold: appended rows, and
\* rows whose cells update_assessment_in_sheet has written one by one
\* (Advance before Date_Watched) or a user of the spreadsheet has edited.
AppendPrimary(rows) ==
    /\ pc = "tabs"
    /\ Len(sheet1) < MaxRows1
    /\ \E r \in rows : /\ sheet1' = Append(sheet1, r)
                       /\ notes1' = Append(notes1, NotesOf(r))
    /\ cache1' = <<>>
    /\ cache2' = <<>>
    /\ pc' = "idle"
    /\ scouting_df' = <<>>
    /\ julian_df' = <<>>
    /\ grouped' = <<>>
    /\ view' = <<>>
    /\ UNCHANGED <<sheet2, notes2, report, fetched_notes, writers>>

\* worksheet.append_row on the secondary store from the Julian tab
\* (add_new_assessment_row), st.cache_data.clear() and st.rerun().
AppendSecondary(rows) ==
    /\ pc = "tabs"
    /\ Len(sheet2) < MaxRows2
    /\ \E r \in rows : /\ sheet2' = Append(sheet2, r)
                       /\ notes2' = Append(notes2, NotesOf(r))
    /\ cache1' = <<>>
    /\ cache2' = <<>>
    /\ pc' = "idle"
    /\ scouting_df' = <<>>
    /\ julian_df' = <<>>
    /\ grouped' = <<>>
    /\ view' = <<>>
    /\ UNCHANGED <<sheet1, notes1, report, fetched_notes, writers>>

\* The Database tab of the render: main() hands it scouting_df, the raw
\* frame of the primary store.
DatabaseTab ==
    /\ pc = "tabs"
    /\ view = <<>>
    /\ Len(scouting_df) > 0
    /\ \E term \in SearchTerms :
       LET all == [positions |-> DOMAIN PositionAttributes,
                   age |-> <<MinAge(scouting_df), MaxAge(scouting_df)>>,
                   advance |-> Options({"Yes", "No", "Maybe", "No Video"},
                                       scouting_df, "Advance"),
                   available |-> Options({"Yes", "No"}, scouting_df, "Available?"),
                   last |-> Options({}, scouting_df, "Scout")]
       IN  \E sel \in Selections(all.positions, scouting_df, all.advance,
                                 all.available, all.last, all) :
               view' = DatabaseView(scouting_df, term, sel)
    /\ UNCHANGED <<sheet1, sheet2, notes1, notes2, cache1, cache2, pc,
                   scouting_df, julian_df, grouped, report, fetched_notes, writers>>

\* The Executive tab of the render, over the consolidated table.
ExecutiveTab ==
    /\ pc = "tabs"
    /\ view = <<>>
    /\ Len(grouped) > 0
    /\ \E term \in SearchTerms :
       LET dflt == [positions |-> {9},
                    age |-> <<MinAge(grouped), MaxAge(grouped)>>,
                    advance |-> {"Yes"},
                    available |-> Options({"Yes", "No"}, grouped, "Available?"),
                    last |-> ColorOptions]
       IN  \E sel \in Selections(DOMAIN PositionAttributes, grouped,
                                 Options({"Yes", "No", "Maybe", "No Video"},
                                         grouped, "Advance"),
                                 dflt.available, ColorOptions, dflt) :
               view' = ExecutiveView(grouped, term, sel, AgeIsFloat(Concat(scouting_df, julian_df)))
    /\ UNCHANGED <<sheet1, sheet2, notes1, notes2, cache1, cache2, pc,
                   scouting_df, julian_df, grouped, report, fetched_notes, writers>>

\* The Agent tab of the render, for a scout it is open to; its widgets take
\* their options from scouting_df.
AgentTab ==
    /\ pc = "tabs"
    /\ view = <<>>
    /\ \A i \in 1..Len(scouting_df) : scouting_df[i].Age # NaN
    /\ \E term \in SearchTerms, sortBy \in {"Date_Watched", "CR", "PR"} :
       LET dflt == [positions |-> {9},
                    age |-> <<MinAge(scouting_df), MaxAge(scouting_df)>>,
                    advance |-> {"Yes"},
                    available |-> Options({"Yes", "No"}, scouting_df, "Available?"),
                    last |-> ColorOptions]
       IN  \E sel \in Selections(DOMAIN PositionAttributes, scouting_df,
                                 Options({"Yes", "No", "Maybe", "No Video"},
                                         scouting_df, "Advance"),
                                 dflt.available, ColorOptions, dflt) :
               view' = AgentView(grouped, term, sel, AgeIsFloat(Concat(scouting_df, julian_df)), sortBy)
    /\ UNCHANGED <<sheet1, sheet2, notes1, notes2, cache1, cache2, pc,
                   scouting_df, julian_df, grouped, report, fetched_notes, writers>>

\* The Add Players sub-tab of the Julian tab, for a scout it is open to.
JulianTab ==
    /\ pc = "tabs"
    /\ view = <<>>
    /\ Len(JulianFrame(grouped, julian_df)) > 0
    /\ \E term \in SearchTerms :
       LET temp == JulianFrame(grouped, julian_df)
           dflt == [positions |-> DOMAIN PositionAttributes,
                    age |-> <<MinAge(temp), MaxAge(temp)>>,
                    advance |-> {"Yes"},
                    available |-> {"Yes"},
                    last |-> ColorOptions]
       IN  \E sel \in Selections(DOMAIN PositionAttributes, temp,
                                 {"Yes", "No", "Maybe", "No Video", ""},
                                 Options({"Yes", "No"}, temp, "Available?"),
                                 ColorOptions, dflt) :
               view' = JulianView(grouped, julian_df, term, sel, AgeIsFloat(Concat(scouting_df, julian_df)))
    /\ UNCHANGED <<sheet1, sheet2, notes1, notes2, cache1, cache2, pc,
                   scouting_df, julian_df, grouped, report, fetched_notes, writers>>

\* The ttl of st.cache_data runs out between two renders; both entries were
\* made by one render and expire together.
CacheExpire ==
    /\ pc = "idle"
    /\ cache1 # <<>> \/ cache2 # <<>>
    /\ cache1' = <<>>
    /\ cache2' = <<>>
    /\ UNCHANGED <<sheet1, sheet2, notes1, notes2, pc, scouting_df, julian_df,
                   grouped, view, report, fetched_notes, writers>>

\* The handler ends and with it the render, by st.rerun() or by reaching the
\* end of main().
EndHandler ==
    /\ pc' = "idle"
    /\ scouting_df' = <<>>
    /\ julian_df' = <<>>
    /\ grouped' = <<>>
    /\ view' = <<>>

\* The Add Player form of add_player_tab, submitted with one of the forms
\* while the primary store holds fewer than most rows: add_player_to_sheet
\* is called once for each selected scout, and each call appends a row with
\* an Entry_ID of its own and clears the cache.
\* The sessions that write to the primary store at the same time, each
\* running its script in a thread of its own, and the assessment and the
\* comment each of them submits.
Sessions == {"s1", "s2"}

SessionData ==
    ("s1" :> [Advance |-> "No", Position |-> 9, rating |-> 6]) @@
    ("s2" :> [Advance |-> "Yes", Position |-> 9, rating |-> 8])

SessionComment == ("s1" :> "good") @@ ("s2" :> "raw")

\* A session without a call in progress submits the assessment form for a
\* row of the store it has loaded, and update_assessment_in_sheet starts.
BeginUpdate(w) ==
    /\ w \notin DOMAIN writers
    /\ \E r \in 0..(Len(sheet1) - 1) :
           writers' = writers @@
               (w :> [op |-> "update", row_index |-> r, data |-> SessionData[w],
                      comment_text |-> SessionComment[w], at |-> "cell", cell |-> 1])
    /\ UNCHANGED <<sheet1, sheet2, notes1, notes2, cache1, cache2, pc, scouting_df,
                   julian_df, grouped, view, report, fetched_notes>>

\* One worksheet.update_cell of the loop of update_assessment_in_sheet.
UpdateCell(w) ==
    /\ w \in DOMAIN writers
    /\ writers[w].op = "update" /\ writers[w].at = "cell"
    /\ LET call == writers[w]
           cells == AssessmentCells(call.data)
           Value == [c \in Range(cells) |-> AssessmentValue(call.data, c)]
       IN  /\ sheet1' = WriteCells(sheet1, call.row_index, <<cells[call.cell]>>, Value, 1)
           /\ writers' = [writers EXCEPT ![w] =
                  IF call.cell < Len(cells) THEN [call EXCEPT !.cell = call.cell + 1]
                  ELSE [call EXCEPT !.at = "note"]]
    /\ UNCHANGED <<sheet2, notes1, notes2, cache1, cache2, pc, scouting_df,
                   julian_df, grouped, view, report, fetched_notes>>

\* add_comment_to_cell of update_assessment_in_sheet, the cache cleared
\* after it, and the return.
UpdateNote(w) ==
    /\ w \in DOMAIN writers
    /\ writers[w].op = "update" /\ writers[w].at = "note"
    /\ LET call == writers[w]
           Done == [c \in {"Comment"} |-> "Done"]
       IN  /\ sheet1' = WriteCells(sheet1, call.row_index, <<"Comment">>, Done, 1)
           /\ notes1' = [notes1 EXCEPT ![call.row_index + 1]["Comment"] = call.comment_text]
           /\ writers' = [writers EXCEPT ![w] = [call EXCEPT !.at = "done"]]
    /\ cache1' = <<>>
    /\ cache2' = <<>>
    /\ UNCHANGED <<sheet2, notes2, pc, scouting_df, julian_df, grouped, view, report,
                   fetched_notes>>

\* A session without a call in progress submits the assessment form for an
\* entry its scout has no row of, and add_new_assessment_row starts.
BeginAppend(w) ==
    /\ w \notin DOMAIN writers
    /\ \E r \in 1..Len(sheet1) :
           writers' = writers @@
               (w :> [op |-> "append", original_data |-> sheet1[r],
                      data |-> SessionData[w], comment_text |-> SessionComment[w],
                      at |-> "append", appended |-> 0, new_row_index |-> 0])
    /\ UNCHANGED <<sheet1, sheet2, notes1, notes2, cache1, cache2, pc, scouting_df,
                   julian_df, grouped, view, report, fetched_notes>>

\* worksheet.append_row of add_new_assessment_row; appended keeps the place
\* of the row among the data rows.
AppendRow(w) ==
    /\ w \in DOMAIN writers
    /\ writers[w].op = "append" /\ writers[w].at = "append"
    /\ Len(sheet1) < MaxStoreRows
    /\ LET call == writers[w]
       IN  /\ sheet1' = Append(sheet1, NewAssessmentRow(call.original_data, "Julian",
                                                       call.data, ""))
           /\ notes1' = Append(notes1, NoNotes)
           /\ writers' = [writers EXCEPT ![w] =
                  [call EXCEPT !.at = "count", !.appended = Len(sheet1) + 1]]
    /\ UNCHANGED <<sheet2, notes2, cache1, cache2, pc, scouting_df, julian_df,
                   grouped, view, report, fetched_notes>>

\* new_row_index = len(worksheet.get_all_values()) of add_new_assessment_row:
\* the rows of the sheet, its header row included.
CountRows(w) ==
    /\ w \in DOMAIN writers
    /\ writers[w].op = "append" /\ writers[w].at = "count"
    /\ writers' = [writers EXCEPT ![w] =
           [writers[w] EXCEPT !.at = "note", !.new_row_index = Len(sheet1) + 1]]
    /\ UNCHANGED <<sheet1, sheet2, notes1, notes2, cache1, cache2, pc, scouting_df,
                   julian_df, grouped, view, report, fetched_notes>>

\* add_comment_to_cell of add_new_assessment_row on the row counted, the
\* cache cleared after it, and the return.
AppendNote(w) ==
    /\ w \in DOMAIN writers
    /\ writers[w].op = "append" /\ writers[w].at = "note"
    /\ LET call == writers[w]
           r == call.new_row_index - 2
           Done == [c \in {"Comment"} |-> "Done"]
       IN  /\ sheet1' = WriteCells(sheet1, r, <<"Comment">>, Done, 1)
           /\ notes1' = [notes1 EXCEPT ![r + 1]["Comment"] = call.comment_text]
           /\ writers' = [writers EXCEPT ![w] = [call EXCEPT !.at = "done"]]
    /\ cache1' = <<>>
    /\ cache2' = <<>>
    /\ UNCHANGED <<sheet2, notes2, pc, scouting_df, julian_df, grouped, view, report,
                   fetched_notes>>

\* player_view_tab down to the Assessment History of the selected player.
PlayerViewTab ==
    /\ pc = "tabs"
    /\ view = <<>>
    /\ Len(scouting_df) > 0
    /\ \E selected_player \in {scouting_df[i].Player : i \in 1..Len(scouting_df)} :
       LET Assessed(i) == /\ scouting_df[i].Player = selected_player
                          /\ \/ scouting_df[i].Comment # ""
                             \/ scouting_df[i].Date_Watched # ""
           history == AssessmentHistory(fetched_notes, notes1, scouting_df,
                                        SelectSeq(Index(scouting_df), Assessed), 1)
       IN  /\ view' = [tab |-> "player", player |-> selected_player,
                       shown |-> history.shown]
           /\ fetched_notes' = history.fetched
    /\ UNCHANGED <<sheet1, sheet2, notes1, notes2, cache1, cache2, pc,
                   scouting_df, julian_df, grouped, report, writers>>

\* scout_panel_tab down to the display: the rows of the scout in the chosen
\* view mode.
ScoutPanelTab ==
    /\ pc = "tabs"
    /\ view = <<>>
    /\ Len(scouting_df) > 0
    /\ \E scout_name \in {scouting_df[i].Scout : i \in 1..Len(scouting_df)},
          view_mode \in ViewModes :
       LET Mine(i) == scouting_df[i].Scout = scout_name
           scout_players == SelectSeq(Index(scouting_df), Mine)
       IN  view' = [tab |-> "scout", scout |-> scout_name, mode |-> view_mode,
                    index |-> PanelDisplay(scouting_df, scout_players, view_mode)]
    /\ UNCHANGED <<sheet1, sheet2, notes1, notes2, cache1, cache2, pc,
                   scouting_df, julian_df, grouped, report, fetched_notes, writers>>

\* power_rankings_tab; the KeyError of sort_values ends the run.
PowerRankingsTab ==
    /\ pc = "tabs"
    /\ view = <<>>
    /\ Len(grouped) > 0
    /\ \E selected_position \in DOMAIN PositionAttributes,
          selected_profile \in CategoryOptions :
       \E rating_type \in Range(<<"CR", "PR">> \o PositionAttributes[selected_position]) :
          /\ view' = PowerRankings(grouped, selected_position, selected_profile,
                                   rating_type)
          /\ pc' = IF view'.raised THEN "raised" ELSE pc
    /\ UNCHANGED <<sheet1, sheet2, notes1, notes2, cache1, cache2,
                   scouting_df, julian_df, grouped, report, fetched_notes, writers>>

\* add_player_tab, the form of the TM link: the page is scraped, and when the
\* scraper returned a record, add_player_to_sheet is called once for each
\* selected scout, each call drawing an Entry_ID of its own.
AddPlayerFromTM(pages, selections, most) ==
    /\ pc = "tabs"
    /\ \E page \in pages, scout_assigned \in selections :
       LET player == ScrapePlayerInfo(page)
           n == Len(sheet1) + Len(sheet2)
           added == IF player = None THEN <<>>
                    ELSE [i \in 1..Len(scout_assigned) |->
                             [BaseRow EXCEPT !.Player = player.name,
                                             !.Club = player.club,
                                             !.Age = player.age,
                                             !.DOB = player.dob,
                                             !.Height = player.height,
                                             !["Market Value"] = MarketCell(player.value),
                                             !.Scout = scout_assigned[i],
                                             !.Entry_ID = EntryId(n + i - 1),
                                             !.Date_Sent = Today]]
       IN  /\ Len(sheet1) + Len(added) <= most
           /\ sheet1' = sheet1 \o added
           /\ notes1' = notes1 \o [i \in 1..Len(added) |-> NoNotes]
           /\ cache1' = IF player = None THEN cache1 ELSE <<>>
           /\ cache2' = IF player = None THEN cache2 ELSE <<>>
           /\ report' = [op |-> "tm", ok |-> player # None, page |-> page,
                         player |-> player, added |-> Len(added)]
    /\ EndHandler
    /\ UNCHANGED <<sheet2, notes2, fetched_notes, writers>>

AddPlayer(forms, most) ==
    /\ pc = "tabs"
    /\ \E form \in forms :
       LET n == Len(sheet1) + Len(sheet2)
           added == [i \in 1..Len(form.scout) |->
                        [form.player EXCEPT !.Scout = form.scout[i],
                                            !.Entry_ID = EntryId(n + i - 1),
                                            !.Date_Sent = Today]]
       IN  /\ Len(sheet1) + Len(added) <= most
           /\ sheet1' = sheet1 \o added
           /\ notes1' = notes1 \o [i \in 1..Len(added) |-> NoNotes]
           /\ report' = [op |-> "add", ok |-> TRUE, added |-> Len(added)]
    /\ cache1' = <<>>
    /\ cache2' = <<>>
    /\ EndHandler
    /\ UNCHANGED <<sheet2, notes2, fetched_notes, writers>>

\* What the Add Players sub-tab can display in the render in progress, by
\* search or by selection.
JulianDisplays ==
    LET temp == JulianFrame(grouped, julian_df)
        dflt == [positions |-> DOMAIN PositionAttributes,
                 age |-> <<MinAge(temp), MaxAge(temp)>>,
                 advance |-> {"Yes"},
                 available |-> {"Yes"},
                 last |-> ColorOptions]
    IN  {JulianView(grouped, julian_df, term, sel,
                    AgeIsFloat(Concat(scouting_df, julian_df))).rows :
            term \in SearchTerms,
            sel \in Selections(DOMAIN PositionAttributes, temp,
                               {"Yes", "No", "Maybe", "No Video", ""},
                               Options({"Yes", "No"}, temp, "Available?"),
                               ColorOptions, dflt)}

\* available_notes of the bulk copy from the k-th selected row on: for each
\* selected row the note of the Available? cell of the first row of the
\* player in scouting_df, read through the note cache of the session.
RECURSIVE AvailableNotes(_, _, _, _, _)
AvailableNotes(fetched, notes, selected, primary, k) ==
    IF k > Len(selected) THEN [notes |-> <<>>, fetched |-> fetched]
    ELSE LET Same(i) == /\ primary[i].Player = selected[k].Player
                        /\ primary[i].DOB = selected[k].DOB
             hits == SelectSeq(Index(primary), Same)
             read == IF hits = <<>> THEN [note |-> "", fetched |-> fetched]
                     ELSE GetCellNoteWithCache(fetched, notes,
                                               primary[hits[1]]["_original_sheet_row"],
                                               "Available?", primary[hits[1]].Entry_ID)
             rest == AvailableNotes(read.fetched, notes, selected, primary, k + 1)
         IN  [notes |-> <<read.note>> \o rest.notes, fetched |-> rest.fetched]

\* The bulk copy of julian_tab: the selected rows of the Add Players display
\* are appended to the secondary store with append_rows, each with the note
\* of its player's Available? cell when that has one; the handler ends with
\* st.rerun() and leaves the cache as it is.
BulkCopy ==
    /\ pc = "tabs"
    /\ Len(JulianFrame(grouped, julian_df)) > 0
    /\ \E display \in JulianDisplays :
       \E ids \in SUBSET {<<display[k].Player, display[k].DOB>> : k \in 1..Len(display)} :
           LET selected == SelectedRows(display, ids)
               n == Len(sheet1) + Len(sheet2)
               read == AvailableNotes(fetched_notes, notes1, selected, scouting_df, 1)
           IN  /\ ids # {}
               /\ Len(sheet2) + Len(selected) <= MaxRows2
               /\ sheet2' = sheet2 \o [k \in 1..Len(selected) |->
                                          CopiedRow(selected[k], scouting_df, n + k - 1)]
               /\ notes2' = notes2 \o [k \in 1..Len(selected) |->
                                          [NoNotes EXCEPT !["Available?"] = read.notes[k]]]
               /\ fetched_notes' = read.fetched
    /\ report' = [op |-> "bulk", ok |-> TRUE]
    /\ EndHandler
    /\ UNCHANGED <<sheet1, notes1, cache1, cache2, writers>>

\* What a submission of an assessment form reports: the store, the key,
\* whether the frame held a row of the key, the row the submission was for
\* (0-based among the data rows) and the comment submitted.
AssessmentReport(store, sheet, frame, latest, player, scout, comment, ok) ==
    LET entries == KeyEntries(frame, player, scout, latest.Entry_ID)
    IN  [op |-> "assess", store |-> store, ok |-> ok,
         key |-> <<player, scout, latest.Entry_ID>>,
         held |-> entries # <<>>,
         row |-> IF entries # <<>>
                 THEN frame[entries[Len(entries)]]["_original_sheet_row"]
                 ELSE Len(sheet),
         comment |-> comment]

\* A scout submits the assessment form of scout_panel_tab for one of the
\* players the panel displays; the panel shows the scout's rows of the
\* primary store.
SubmitScoutPanel ==
    /\ pc = "tabs"
    /\ \E scout \in {scouting_df[i].Scout : i \in 1..Len(scouting_df)},
          mode \in ViewModes, fault \in Faults :
       LET Mine(i) == scouting_df[i].Scout = scout
           display == PanelDisplay(scouting_df, SelectSeq(Index(scouting_df), Mine), mode)
       IN  \E player \in {scouting_df[display[k]].Player : k \in 1..Len(display)} :
           LET latest == LatestEntry(scouting_df, display, player)
           IN  \E data \in {[d EXCEPT !.Position = latest.Position] : d \in AssessmentData},
                  comment \in Comments :
               LET res == SubmitAssessment(sheet1, scouting_df, latest, player, scout, data, fault)
               IN  /\ Len(res.sheet) <= MaxStoreRows
                   /\ sheet1' = res.sheet
                   /\ notes1' = NotesAfter(notes1, res.sheet, res.noted, "Comment", comment)
                   /\ cache1' = IF res.ok THEN <<>> ELSE cache1
                   /\ cache2' = IF res.ok THEN <<>> ELSE cache2
                   /\ report' = AssessmentReport(1, sheet1, scouting_df, latest, player,
                                                 scout, comment, res.ok)
    /\ EndHandler
    /\ UNCHANGED <<sheet2, notes2, fetched_notes, writers>>

\* A scout the Julian tab is open to submits the assessment form of its
\* Make Reports sub-tab; the sub-tab shows every row of the secondary store.
SubmitJulianPanel ==
    /\ pc = "tabs"
    /\ \E scout \in {"Julian", "Malek"}, mode \in ViewModes, fault \in Faults :
       LET display == PanelDisplay(julian_df, Index(julian_df), mode)
       IN  \E player \in {julian_df[display[k]].Player : k \in 1..Len(display)} :
           LET latest == LatestEntry(julian_df, display, player)
           IN  \E data \in {[d EXCEPT !.Position = latest.Position] : d \in AssessmentData},
                  comment \in Comments :
               LET res == SubmitAssessment(sheet2, julian_df, latest, player, scout, data, fault)
               IN  /\ Len(res.sheet) <= MaxStoreRows
                   /\ sheet2' = res.sheet
                   /\ notes2' = NotesAfter(notes2, res.sheet, res.noted, "Comment", comment)
                   /\ cache1' = IF res.ok THEN <<>> ELSE cache1
                   /\ cache2' = IF res.ok THEN <<>> ELSE cache2
                   /\ report' = AssessmentReport(2, sheet2, julian_df, latest, player,
                                                 scout, comment, res.ok)
    /\ EndHandler
    /\ UNCHANGED <<sheet1, notes1, fetched_notes, writers>>

\* What the Agent tab can list in the render in progress, by search or by
\* selection, in each sort order.
AgentListings ==
    LET dflt == [positions |-> {9},
                 age |-> <<MinAge(scouting_df), MaxAge(scouting_df)>>,
                 advance |-> {"Yes"},
                 available |-> Options({"Yes", "No"}, scouting_df, "Available?"),
                 last |-> ColorOptions]
    IN  {AgentView(grouped, term, sel, AgeIsFloat(Concat(scouting_df, julian_df)),
                   sortBy).rows :
            term \in SearchTerms,
            sortBy \in {"Date_Watched", "CR", "PR"},
            sel \in Selections(DOMAIN PositionAttributes, scouting_df,
                               Options({"Yes", "No", "Maybe", "No Video"},
                                       scouting_df, "Advance"),
                               dflt.available, ColorOptions, dflt)}

\* latest_entry of each expander of a listing: the last listed record of
\* each player name.
LatestEntries(listed) ==
    {LET OfPlayer(g) == g.Player = player
         entries == SelectSeq(listed, OfPlayer)
     IN  entries[Len(entries)] : player \in {listed[k].Player : k \in 1..Len(listed)}}

\* A scout the Agent tab is open to submits its form for a player the tab
\* lists: the update goes to every matching row of scouting_df in the
\* primary store and then of julian_df in the secondary store.
AgentUpdate ==
    /\ pc = "tabs"
    /\ \A i \in 1..Len(scouting_df) : scouting_df[i].Age # NaN
    /\ \E latest \in UNION {LatestEntries(listed) : listed \in AgentListings} :
       \E data \in AgentData, plan \in FaultPlans :
           LET out == SubmitAgentUpdate(sheet1, sheet2, scouting_df, julian_df,
                                        latest, data, plan)
               calls1 == Len(MatchingRows(scouting_df, latest.Player, latest.DOB))
               calls2 == Len(MatchingRows(julian_df, latest.Player, latest.DOB))
           IN  /\ \/ plan.store = 0
                  \/ plan.store = 1 /\ plan.k <= calls1
                  \/ plan.store = 2 /\ plan.k <= calls2 /\ out.failed1 = {}
               /\ sheet1' = out.sheet1
               /\ sheet2' = out.sheet2
               /\ notes1' = NotesAfter(notes1, out.sheet1, out.noted1, "Available?",
                                       AgentComment)
               /\ notes2' = NotesAfter(notes2, out.sheet2, out.noted2, "Available?",
                                       AgentComment)
               /\ cache1' = IF out.cleared THEN <<>> ELSE cache1
               /\ cache2' = IF out.cleared THEN <<>> ELSE cache2
               /\ report' = [op |-> "agent", player |-> latest.Player,
                             dob |-> latest.DOB, data |-> data, plan |-> plan,
                             messages |-> out.messages,
                             failed1 |-> out.failed1, failed2 |-> out.failed2]
    /\ EndHandler
    /\ UNCHANGED <<fetched_notes, writers>>

\* ---------------------------------------------------------- specifications

InitAdvance == InitWith(RowsAdvance1, RowsAdvance2)

NextAdvance ==
    \/ Main
    \/ EndRun
    \/ AppendPrimary(RowsAdvance1)
    \/ AppendSecondary(RowsAdvance2)

\* The stores hold rows that differ in assessment status and Advance.
SpecAdvance == InitAdvance /\ [][NextAdvance]_vars

InitRatings == InitWith(RowsRatings1, RowsRatings2)

NextRatings ==
    \/ Main
    \/ EndRun
    \/ AppendPrimary(RowsRatings1)
    \/ AppendSecondary(RowsRatings2)

\* The stores hold rows that differ in their ratings.
SpecRatings == InitRatings /\ [][NextRatings]_vars

InitGrouping == InitWith(RowsGrouping1, RowsGrouping2)

NextGrouping ==
    \/ Main
    \/ EndRun
    \/ AppendPrimary(RowsGrouping1)
    \/ AppendSecondary(RowsGrouping2)

\* The stores hold rows that differ in identity, scout, comment and date.
SpecGrouping == InitGrouping /\ [][NextGrouping]_vars

InitFields == InitWith(RowsFields1, RowsFields2)

NextFields ==
    \/ Main
    \/ EndRun
    \/ AppendPrimary(RowsFields1)
    \/ AppendSecondary(RowsFields2)

\* The stores hold rows that differ in their descriptive and agent fields.
SpecFields == InitFields /\ [][NextFields]_vars

InitViews == InitWith(RowsViews1, RowsViews2)

NextViews ==
    \/ Main
    \/ EndRun
    \/ AppendPrimary(RowsViews1)
    \/ AppendSecondary(RowsViews2)
    \/ DatabaseTab
    \/ ExecutiveTab
    \/ AgentTab
    \/ JulianTab

\* The stores hold rows of three players and the filtered views render.
SpecViews == InitViews /\ [][NextViews]_vars

InitAssess == InitWith(RowsStores1, RowsStores2)

NextAssess ==
    \/ Main
    \/ EndRun
    \/ CacheExpire
    \/ SubmitScoutPanel
    \/ SubmitJulianPanel

\* Scouts submit assessments to the two stores behind the cache.
SpecAssess == InitAssess /\ [][NextAssess]_vars

InitAgents == InitWith(RowsStores1, RowsAgents2)

NextAgents ==
    \/ Main
    \/ EndRun
    \/ CacheExpire
    \/ AddPlayer(PlayerForms, MaxRows1)
    \/ BulkCopy
    \/ AgentUpdate

InitLoad == InitWith(RowsViews1, RowsViews2)

NextLoad ==
    \/ Main
    \/ EndRun
    \/ CacheExpire
    \/ MainStoreDown
    \/ Rerun
    \/ AppendPrimary(RowsViews1)
    \/ AppendSecondary(RowsViews2)

\* Page renders while the stores can fail to load.
\* Two sessions writing assessments to the primary store, their calls to
\* the store interleaved.
InitRace == InitWith(RowsStores1, RowsStores2)

NextRace ==
    \E w \in Sessions :
        \/ BeginUpdate(w)
        \/ UpdateCell(w)
        \/ UpdateNote(w)
        \/ BeginAppend(w)
        \/ AppendRow(w)
        \/ CountRows(w)
        \/ AppendNote(w)

SpecRace == InitRace /\ [][NextRace]_vars

\* The comment notes read in the Player View and written by the Scout
\* Panel in one session.
InitNotes == InitWith(RowsNotes1, RowsStores2)

NextNotes ==
    \/ Main
    \/ EndRun
    \/ AppendPrimary(RowsNotes1)
    \/ PlayerViewTab
    \/ SubmitScoutPanel

SpecNotes == InitNotes /\ [][NextNotes]_vars

\* The Scout Panel and the Power Rankings over both stores.
InitPanels == InitWith(RowsPanels1, RowsViews2)

NextPanels ==
    \/ Main
    \/ EndRun
    \/ Rerun
    \/ AppendPrimary(RowsPanels1)
    \/ AppendSecondary(RowsViews2)
    \/ ScoutPanelTab
    \/ PowerRankingsTab

SpecPanels == InitPanels /\ [][NextPanels]_vars

\* The intake of players: the manual form and the form of the TM link.
InitIntake == InitWith(RowsStores1, RowsStores2)

NextIntake ==
    \/ Main
    \/ EndRun
    \/ AddPlayer(IntakeForms, MaxStoreRows)
    \/ AddPlayerFromTM(Pages, ScoutSelections, MaxStoreRows)

SpecIntake == InitIntake /\ [][NextIntake]_vars

\* The form of the TM link on pages whose fields take the texts of the
\* formatting.
InitFormat == InitWith(RowsStores1, RowsStores2)

NextFormat ==
    \/ Main
    \/ EndRun
    \/ AddPlayerFromTM(FormatPages, {<<"Maxi">>}, MaxRows1)

SpecFormat == InitFormat /\ [][NextFormat]_vars

SpecLoad == InitLoad /\ [][NextLoad]_vars

\* Players are copied into the secondary store and agent updates fan out to
\* both stores behind the cache.
SpecAgents == InitAgents /\ [][NextAgents]_vars

\* The merged pool of the render in progress.
Pool == Concat(scouting_df, julian_df)

\* ------------------------------------------------------------------ claims

\* The consolidated records of the render in progress.
Records == {grouped[k] : k \in 1..Len(grouped)}

\* Row i of the pool carries the identity of consolidated record g.
RecordOf(i, g) ==
    /\ Pool[i].Player = g.Player
    /\ Pool[i].Club = g.Club
    /\ Pool[i].League = g.League
    /\ Pool[i].Age = g.Age
    /\ Pool[i].DOB = g.DOB
    /\ Pool[i].Position = g.Position

\* The pool rows of g's group, and the watched ones among them.
Members(g) == {i \in 1..Len(Pool) : RecordOf(i, g)}

WatchedMembers(g) == {i \in Members(g) : Pool[i].Date_Watched # ""}

RECURSIVE SumOver(_, _)
SumOver(S, f) ==
    IF S = {} THEN 0
    ELSE LET i == CHOOSE x \in S : TRUE IN f[i] + SumOver(S \ {i}, f)

\* The sum of one field over g's watched rows, a missing value counted as 0
\* (half-points).
WatchedTotal(g, col) ==
    SumOver(WatchedMembers(g),
            [i \in 1..Len(Pool) |-> IF Pool[i][col] = NaN THEN 0 ELSE Pool[i][col]])

\* The consensus weight of an Advance value, in half-points.
Weight(a) ==
    IF a \in {"Yes", "Tier 1"} THEN 2 ELSE IF a \in {"Maybe", "Tier 2"} THEN 1 ELSE 0

\* C1: every consolidated record has Advanced % between 0 and 100, and
\* Advanced % is 0 whenever # Reports is 0 (also when an unwatched record
\* carries an Advance value).
C1_AdvancedPctInRange ==
    \A g \in Records :
        /\ g["Advanced %"] \in 0..100
        /\ g["# Reports"] = 0 => g["Advanced %"] = 0

\* C2: for every group with # Reports > 0 and every field of the numeric
\* rollup set, the rolled-up value is S / # Reports rounded to the nearest
\* integer (a tie to the even one, as round() does), where S sums the field
\* over the group's watched rows with a missing value counted as 0.
C2_AverageOverWatched ==
    \A g \in Records : \A col \in Range(NumCols) :
        g["# Reports"] > 0 =>
            LET n == g["# Reports"]
                d == 2 * n * g[col] - WatchedTotal(g, col)
            IN  /\ -n <= d /\ d <= n
                /\ (d = n \/ d = -n) => g[col] % 2 = 0

\* A group of three rows with two reports, whose unwatched row holds a
\* rating and one of whose watched rows holds none, is rolled up.
C2_Witness ==
    \E g \in Records :
        /\ g["# Reports"] = 2
        /\ Cardinality(Members(g)) = 3
        /\ \E i \in Members(g) \ WatchedMembers(g) : Pool[i].Speed > 0
        /\ \E i \in WatchedMembers(g) : Pool[i].Speed = NaN
        /\ g.Speed > 0

\* A consolidated record as an assessment row: the rolled-up whole points as
\* rating cells.
AsAssessmentRow(g) ==
    [c \in DOMAIN g |-> IF c \in Range(NumCols) THEN 2 * g[c] ELSE g[c]]

\* C3: rolling up the rollup's own output, one record per group, gives every
\* group the CR, PR and attribute values of the first rollup.
C3_RollupIdempotent ==
    LET again == Rollup([k \in 1..Len(grouped) |-> AsAssessmentRow(grouped[k])])
    IN  /\ Len(again) = Len(grouped)
        /\ \A k \in 1..Len(grouped) : \A col \in Range(NumCols) :
               again[k][col] = grouped[k][col]

\* C4: every row of the merged pool is reconciled into exactly one
\* consolidated record, a row with a null Age included.
C4_NoRecordDropped ==
    \A i \in 1..Len(Pool) :
        Cardinality({k \in 1..Len(grouped) : RecordOf(i, grouped[k])}) = 1

\* Two pool rows agree on the identity and differ at most in Scout, Comment
\* and their sheet row.
DifferOnlyInScoutOrComment(i, j) ==
    /\ i # j
    /\ \A c \in DOMAIN Pool[i] \ {"Scout", "Comment", "_original_sheet_row"} :
           Pool[i][c] = Pool[j][c]

\* C5: two rows that agree on the identity and differ only in Scout or
\* Comment are rolled up into the same consolidated record; two rows with
\* one Player and DOB and different Positions are rolled up into different
\* consolidated records.
C5_GroupingKey ==
    \A i, j \in 1..Len(Pool) :
        /\ DifferOnlyInScoutOrComment(i, j) =>
               \E g \in Records : RecordOf(i, g) /\ RecordOf(j, g)
        /\ (/\ Pool[i].Player = Pool[j].Player
            /\ Pool[i].DOB = Pool[j].DOB
            /\ Pool[i].Position # Pool[j].Position) =>
               \E g, h \in Records : g # h /\ RecordOf(i, g) /\ RecordOf(j, h)

\* C6: for every group with # Reports > 0, Advanced % is
\* 100 * Advance Total / # Reports rounded to the nearest integer.
C6_AdvancedPctRounded ==
    \A g \in Records :
        g["# Reports"] > 0 =>
            LET n == g["# Reports"]
                d == 2 * n * g["Advanced %"] - 100 * g["Advance Total"]
            IN  -n <= d /\ d <= n

\* C7: a group with no watched row is rolled up to 0 in every field of the
\* numeric rollup set, Advanced % 0 and Advance No.
C7_ZeroWatched ==
    \A g \in Records :
        WatchedMembers(g) = {} =>
            /\ \A col \in Range(NumCols) : g[col] = 0
            /\ g["Advanced %"] = 0
            /\ g.Advance = "No"

\* A group with no watched row, whose rows hold ratings and an Advance of
\* Yes, is rolled up.
C7_Witness ==
    \E g \in Records :
        /\ WatchedMembers(g) = {}
        /\ \E i \in Members(g) : Pool[i].Speed > 0 /\ Pool[i].Advance = "Yes"

\* C8: Strengths lists the fields whose average over the watched rows is
\* above 3 and Weaknesses the fields whose average is below 2; a single
\* watched row rating Speed 3.5 and Passing Vision 1.5 has Speed among its
\* Strengths and Passing Vision among its Weaknesses.
C8_StrengthsWeaknesses ==
    \A g \in Records : \A col \in Range(NumCols) :
        g["# Reports"] > 0 =>
            LET n == g["# Reports"]
                S == WatchedTotal(g, col)
            IN  /\ col \in Range(g.Strengths) <=> S > 3 * 2 * n
                /\ col \in Range(g.Weaknesses) <=> S < 2 * 2 * n

\* C9: # Reports is the number of the group's rows whose Date_Watched is not
\* empty, so it lies between 0 and the number of the group's rows.
C9_ReportsCountWatched ==
    \A g \in Records :
        /\ g["# Reports"] = Cardinality(WatchedMembers(g))
        /\ 0 <= g["# Reports"]
        /\ g["# Reports"] <= Cardinality(Members(g))

\* A group with both watched and unwatched rows is rolled up.
C9_Witness ==
    \E g \in Records :
        /\ Cardinality(WatchedMembers(g)) = 2
        /\ Cardinality(Members(g)) = 4

\* C10: Advance Total is the sum of the consensus weights of the group's
\* rows, an unwatched row contributing 0.
C10_AdvanceTotal ==
    \A g \in Records :
        g["Advance Total"] =
            SumOver(WatchedMembers(g), [i \in 1..Len(Pool) |-> Weight(Pool[i].Advance)])

\* The first and the last row of g's group in the order of the pool.
FirstMember(g) == CHOOSE i \in Members(g) : \A j \in Members(g) : i <= j

LastMember(g) == CHOOSE i \in Members(g) : \A j \in Members(g) : j <= i

\* C11: Advance is Yes exactly when Advanced % is 100, No exactly when it is
\* 0 and Maybe otherwise; so a group whose watched rows all say Yes or Tier 1
\* is Yes, and a group with a weight-bearing and a zero-weight watched row is
\* Maybe.
C11_AdvanceLabel ==
    \A g \in Records :
        /\ g.Advance = "Yes" <=> g["Advanced %"] = 100
        /\ g.Advance = "No" <=> g["Advanced %"] = 0
        /\ g.Advance = "Maybe" <=> g["Advanced %"] \notin {0, 100}
        /\ (/\ WatchedMembers(g) # {}
            /\ \A i \in WatchedMembers(g) : Pool[i].Advance \in {"Yes", "Tier 1"})
               => g.Advance = "Yes"
        /\ (/\ \E i \in WatchedMembers(g) : Weight(Pool[i].Advance) > 0
            /\ \E i \in WatchedMembers(g) : Weight(Pool[i].Advance) = 0)
               => g.Advance = "Maybe"

\* C12: Market Value and Contract Expires of a consolidated record are those
\* of the last row of its group in the order of the pool.
C12_MarketValueLast ==
    \A g \in Records :
        /\ g["Market Value"] = Pool[LastMember(g)]["Market Value"]
        /\ g["Contract Expires"] = Pool[LastMember(g)]["Contract Expires"]

\* C13: Height, Category, Source, Date_Sent and Date_Watched of a
\* consolidated record are those of the last row of its group, empty or not;
\* Agent, Contact Point, Last Spoke With Agent and Available? are those of
\* its first row.
C13_LastAndFirstFields ==
    \A g \in Records :
        /\ \A c \in {"Height", "Category", "Source", "Date_Sent", "Date_Watched"} :
               g[c] = Pool[LastMember(g)][c]
        /\ \A c \in {"Agent", "Contact Point", "Last Spoke With Agent", "Available?"} :
               g[c] = Pool[FirstMember(g)][c]

\* A group of three rows is rolled up whose last row has an empty Height
\* after a row with a Height, and whose first row has agent fields that a
\* later row leaves empty.
C13_Witness ==
    \E g \in Records :
        /\ Cardinality(Members(g)) = 3
        /\ Pool[LastMember(g)].Height = ""
        /\ \E i \in Members(g) : Pool[i].Height # ""
        /\ Pool[FirstMember(g)].Agent # ""
        /\ Pool[LastMember(g)].Agent = ""
        /\ g.Height = ""
        /\ g.Agent # ""

\* The rows of the displayed view's input frame whose string form contains
\* the search term.
SearchHits ==
    {i \in 1..Len(view.input) :
        IF view.tab = "database"
        THEN RawMatches(view.input, i, DOMAIN view.input[i], view.term)
        ELSE GroupedMatches(view.input[i], view.term, AgeIsFloat(Pool))}

\* The rows of the displayed view's input frame that satisfy every
\* structured predicate of the view's selection.
FilterHits ==
    {i \in 1..Len(view.input) :
        LET row == view.input[i]
            sel == view.sel
        IN  /\ row.Position \in sel.positions
            /\ sel.age[1] <= row.Age /\ row.Age <= sel.age[2]
            /\ row.Advance \in sel.advance
            /\ row["Available?"] \in sel.available
            /\ IF view.tab = "database" THEN row.Scout \in sel.last
                                        ELSE row.Category \in sel.last}

\* C14: in the Database, Executive, Agent and Julian add-players views a
\* typed search term skips the structured filters: the view holds exactly
\* the rows that match the term, whatever is selected in the filters.
C14_SearchSkipsFilters ==
    (view # <<>> /\ view.term # "") => Range(view.index) = SearchHits

\* C15: with no search term a filtered view holds exactly the rows of its
\* input that satisfy all predicates of the selection together, each once
\* and with its cells as they are in the input.
C15_ConjunctiveFilter ==
    (view # <<>> /\ view.term = "") =>
        /\ Range(view.index) = FilterHits
        /\ \A k, l \in 1..Len(view.index) : view.index[k] = view.index[l] => k = l
        /\ \A k \in 1..Len(view.index) : \A c \in DOMAIN view.rows[k] :
               view.rows[k][c] = view.input[view.index[k]][c]

\* The Agent view is rendered without a search term over three consolidated
\* records under an Age selection that keeps one of them.
C15_Witness ==
    /\ view # <<>>
    /\ view.term = ""
    /\ view.tab = "agent"
    /\ Len(view.index) = 1
    /\ Len(view.input) = 3
    /\ view.sel.age[1] = view.sel.age[2]

\* C16: the Database view is built from the consolidated table: it shows at
\* most one row per identity (Player, Club, League, Age, DOB, Position).
C16_DatabaseOneRowPerIdentity ==
    (view # <<>> /\ view.tab = "database") =>
        \A k, l \in 1..Len(view.rows) :
            (\A c \in {"Player", "Club", "League", "Age", "DOB", "Position"} :
                 view.rows[k][c] = view.rows[l][c]) => k = l

\* The last handler wrote to a store and every call of it succeeded.
WriteSucceeded ==
    /\ report # <<>>
    /\ IF report.op = "agent"
       THEN /\ report.plan.store = 0
            /\ "All entries updated successfully" \in report.messages
       ELSE report.ok

\* C17: after every successful write to a store (add player, assessment,
\* agent update, bulk copy into the secondary store) the cache is
\* invalidated, so the next load of each store returns its current rows.
C17_WriteInvalidatesCache ==
    WriteSucceeded =>
        /\ CachedLoad(cache1, sheet1) = LoadScoutingData(sheet1)
        /\ CachedLoad(cache2, sheet2) = LoadScoutingData(sheet2)

\* The number of rows of a sheet with a key (Player, Scout, Entry_ID).
KeyCount(sheet, key) ==
    Cardinality({i \in 1..Len(sheet) :
                    <<sheet[i].Player, sheet[i].Scout, sheet[i].Entry_ID>> = key})

\* One submission of an assessment: in place when the frame holds the key,
\* else at most one new row, which carries the key; the rows of the key do
\* not grow beyond what they were, or beyond one.
SubmissionStep ==
    (pc = "tabs" /\ report' # <<>> /\ report'.op = "assess") =>
        LET before == IF report'.store = 1 THEN sheet1 ELSE sheet2
            after == IF report'.store = 1 THEN sheet1' ELSE sheet2'
            key == report'.key
            most == IF KeyCount(before, key) > 1 THEN KeyCount(before, key) ELSE 1
        IN  /\ report'.held => Len(after) = Len(before)
            /\ ~report'.held => Len(after) <= Len(before) + 1
            /\ (~report'.held /\ report'.ok) =>
                   /\ Len(after) = Len(before) + 1
                   /\ <<after[Len(after)].Player, after[Len(after)].Scout,
                        after[Len(after)].Entry_ID>> = key
            /\ KeyCount(after, key) <= most

\* C18: a submission for a key (Player, Scout, Entry_ID) updates the row in
\* place when the snapshot holds the key and appends exactly one row
\* otherwise; over any sequence of submissions the rows of a key never
\* exceed the number before the first submission, or one if there was none.
C18_UpsertOneRowPerKey == [][SubmissionStep]_vars

\* C19: after an agent update in which every store write succeeded, every
\* row of the player (Player, DOB) in the primary and in the secondary store
\* carries the submitted Agent, Contact Point, Last Spoke With Agent and
\* Available?.
C19_AgentUpdateEveryRow ==
    (WriteSucceeded /\ report.op = "agent") =>
        \A sheet \in {sheet1, sheet2} : \A i \in 1..Len(sheet) :
            (sheet[i].Player = report.player /\ sheet[i].DOB = report.dob) =>
                \A c \in DOMAIN report.data : sheet[i][c] = report.data[c]

\* C20: an agent update in which the update of a row of the primary or of
\* the secondary store failed does not report that all entries were
\* updated successfully.
C20_NoFullSuccessOnFailure ==
    (report # <<>> /\ report.op = "agent"
        /\ (report.failed1 # {} \/ report.failed2 # {})) =>
        "All entries updated successfully" \notin report.messages

\* C21: update_assessment_in_sheet reports success only if every write of
\* the submission succeeded, the comment note included: after a reported
\* success of an update in place the Comment cell of the row holds 'Done'
\* and its note holds the submitted comment.
C21_SuccessMeansNoteWritten ==
    (report # <<>> /\ report.op = "assess" /\ report.ok /\ report.held) =>
        LET sheet == IF report.store = 1 THEN sheet1 ELSE sheet2
            notes == IF report.store = 1 THEN notes1 ELSE notes2
        IN  /\ sheet[report.row + 1].Comment = "Done"
            /\ notes[report.row + 1]["Comment"] = report.comment

\* C22: when loading a store fails, load_scouting_data returns an empty row
\* set and the page render that called it completes: no render ends in an
\* unhandled exception.
C22_StoreFailureNotFatal == pc # "raised"

\* The page of the last scrape has no player name: it could not be read, has
\* no headline, or its headline has no text besides a shirt number.
Nameless(page) ==
    \/ page.fetch # "ok"
    \/ ~page.h1
    \/ \A i \in 1..Len(page.headline) : IsShirtNumber(page.headline[i])

\* C23: a scrape that raises or finds no player name returns None, and the
\* caller appends no row from such a page.
C23_NamelessPageAddsNothing ==
    (report # <<>> /\ report.op = "tm" /\ Nameless(report.page)) =>
        /\ report.player = None
        /\ report.added = 0

\* C24: the rows one add-player submission appends for several scouts share
\* one Entry_ID, and an appended assessment row carries the Entry_ID of the
\* entry it assesses.
C24_SubmissionSharesEntryId ==
    /\ (report # <<>> /\ report.op \in {"add", "tm"}) =>
           \A i, j \in (Len(sheet1) - report.added + 1)..Len(sheet1) :
               sheet1[i].Entry_ID = sheet1[j].Entry_ID
    /\ (report # <<>> /\ report.op = "assess" /\ report.ok /\ ~report.held) =>
           LET sheet == IF report.store = 1 THEN sheet1 ELSE sheet2
           IN  sheet[Len(sheet)].Entry_ID = report.key[3]

\* The second half of C24 alone: an appended assessment row carries the
\* Entry_ID of the entry it assesses.
AppendedRowKeepsEntryId ==
    (report # <<>> /\ report.op = "assess" /\ report.ok /\ ~report.held) =>
        LET sheet == IF report.store = 1 THEN sheet1 ELSE sheet2
        IN  sheet[Len(sheet)].Entry_ID = report.key[3]

AppendedRowSeen ==
    report # <<>> /\ report.op = "assess" /\ report.ok /\ ~report.held

\* The date of birth, the height and the market value, in thousands of
\* euro, that each text of the right form stands for.
DobNormal == ("19.10.1996" :> "10/96") @@ ("3.5.1996" :> "05/96")

HeightNormal == ("1,82 m" :> "182")

ValueNormal ==
    ("€500k" :> 500) @@ ("€125k" :> 125) @@ ("€50k" :> 50) @@ ("€6.00m" :> 6000) @@
    ("€1.25m" :> 1250) @@ ("€1.5b" :> 1500000)

\* C27: the scraper turns a date of birth DD.MM.YYYY into MM/YY, a height
\* 'M,CC m' into the centimetres 'MCC', and a market value with suffix k, m
\* or b into the number of millions it stands for.
C27_ScraperNormalises ==
    (report # <<>> /\ report.op = "tm" /\ report.player # None) =>
        /\ report.page.dob \in DOMAIN DobNormal =>
               report.player.dob = DobNormal[report.page.dob]
        /\ report.page.height \in DOMAIN HeightNormal =>
               report.player.height = HeightNormal[report.page.height]
        /\ report.page.value \in DOMAIN ValueNormal =>
               report.player.value = ValueNormal[report.page.value]

\* The parts of C27 other than the market value.
DobAndHeightNormalised ==
    (report # <<>> /\ report.op = "tm" /\ report.player # None) =>
        /\ report.page.dob \in DOMAIN DobNormal =>
               report.player.dob = DobNormal[report.page.dob]
        /\ report.page.height \in DOMAIN HeightNormal =>
               report.player.height = HeightNormal[report.page.height]
        /\ report.page.value \in {"€500k", "€50k", "€6.00m", "€1.5b"} =>
               report.player.value = ValueNormal[report.page.value]

\* C25: the Unwatched view of the Scout Panel holds exactly the scout's rows
\* whose Comment and Date_Watched are both empty, the Watched view exactly
\* those with at least one of the two, so each row of the scout is in exactly
\* one of them, and the All view holds all rows of the scout.
C25_PanelPartition ==
    (view # <<>> /\ view.tab = "scout") =>
        LET shown == Range(view.index)
            mine == {i \in 1..Len(scouting_df) : scouting_df[i].Scout = view.scout}
            empty == {i \in mine : /\ scouting_df[i].Comment = ""
                                   /\ scouting_df[i].Date_Watched = ""}
        IN  /\ Cardinality(shown) = Len(view.index)
            /\ view.mode = "Unwatched Players" => shown = empty
            /\ view.mode = "Watched Players" => shown = mine \ empty
            /\ view.mode = "All Assigned Players" => shown = mine

\* The Watched view shows a row that has a date but no comment, beside an
\* unwatched row of the scout that it leaves out.
C25_Witness ==
    /\ view # <<>> /\ view.tab = "scout" /\ view.mode = "Watched Players"
    /\ \E k \in 1..Len(view.index) :
           /\ scouting_df[view.index[k]].Comment = ""
           /\ scouting_df[view.index[k]].Date_Watched # ""
    /\ \E i \in 1..Len(scouting_df) :
           /\ scouting_df[i].Scout = view.scout
           /\ i \notin Range(view.index)

\* C26: for the chosen position, category and sort field the Power Rankings
\* show exactly the consolidated records of that Position and Category, in
\* non-increasing order of the sort field, whatever their number of reports.
C26_RankingsFilteredAndSorted ==
    (view # <<>> /\ view.tab = "rankings") =>
        /\ ~view.raised
        /\ Cardinality(Range(view.index)) = Len(view.index)
        /\ Range(view.index) = {i \in 1..Len(grouped) :
                                   /\ grouped[i].Position = view.position
                                   /\ grouped[i].Category = view.profile}
        /\ \A k \in 1..(Len(view.index) - 1) :
               grouped[view.index[k]][view.by] >= grouped[view.index[k + 1]][view.by]

\* C26 for the sort fields that are columns of the consolidated table.
RankingsOfKnownField ==
    (view # <<>> /\ view.tab = "rankings" /\ ~view.raised) =>
        /\ Range(view.index) = {i \in 1..Len(grouped) :
                                   /\ grouped[i].Position = view.position
                                   /\ grouped[i].Category = view.profile}
        /\ \A k \in 1..(Len(view.index) - 1) :
               grouped[view.index[k]][view.by] >= grouped[view.index[k + 1]][view.by]

\* Two records are ranked, the first with the higher rating and no report
\* threshold applied.
RankingsReordered ==
    /\ view # <<>> /\ view.tab = "rankings" /\ Len(view.index) = 2
    /\ view.index[1] > view.index[2]

\* The row holds in every assessment cell, and in the note of its Comment,
\* what the call wrote.
RowIsOf(call) ==
    /\ \A c \in Range(AssessmentCells(call.data)) :
           sheet1[call.row_index + 1][c] = AssessmentValue(call.data, c)
    /\ notes1[call.row_index + 1]["Comment"] = call.comment_text

\* C28: when two concurrent update_assessment_in_sheet calls for one row of
\* the store have both returned, the assessment fields of the row all come
\* from one of the two submissions.
C28_RowLevelLastWriteWins ==
    \A v, w \in DOMAIN writers :
        (/\ v # w
         /\ writers[v].op = "update" /\ writers[w].op = "update"
         /\ writers[v].at = "done" /\ writers[w].at = "done"
         /\ writers[v].row_index = writers[w].row_index) =>
            RowIsOf(writers[v]) \/ RowIsOf(writers[w])

\* C29: when add_new_assessment_row has returned, the row it appended holds
\* its note and 'Done', and no other row holds its note.
C29_NoteOnAppendedRow ==
    \A w \in DOMAIN writers :
        (writers[w].op = "append" /\ writers[w].at = "done") =>
            /\ notes1[writers[w].appended]["Comment"] = writers[w].comment_text
            /\ sheet1[writers[w].appended].Comment = "Done"
            /\ \A r \in 1..Len(sheet1) :
                   r # writers[w].appended =>
                       notes1[r]["Comment"] # writers[w].comment_text

\* C30: a comment that get_cell_note_with_cache returned for a row is the
\* note the Comment cell of that row holds in the store, whatever notes were
\* read and written before and whichever rows share the Entry_ID.
C30_NoteCacheCoherent ==
    (view # <<>> /\ view.tab = "player") =>
        \A k \in 1..Len(view.shown) :
            view.shown[k].actual_comment = GetCellNote(notes1, view.shown[k].idx, "Comment")

====
